---- MODULE Spec2Model ----
(***************************************************************************)
(* GraphLearn: the database-backed graph explorer (db_graph_explorer.py),  *)
(* the graph builder (graph_to_dot.py) and the paged neighbourhood         *)
(* explorer (graph_explorer.py).                                           *)
(*                                                                         *)
(* Python strings are sequences of code points; a NetworkX graph is the    *)
(* record of its node dict (insertion order) and its adjacency dicts       *)
(* (insertion order, with the number of edge keys per neighbour).          *)
(***************************************************************************)
EXTENDS Integers, Sequences, FiniteSets, TLC

\* ---------------------------------------------------------------- strings

Apostrophe == <<39>>
DQuote == <<34>>
Colon == <<58>>
Space == <<32>>

\* the node names of the checked inputs: "A", "B", "C", "D", "O'", "K:"
NameA == <<65>>
NameB == <<66>>
NameC == <<67>>
NameD == <<68>>
NameO == <<79, 39>>
NameK == <<75, 58>>

\* f'"{node}"'
Quote(n) == DQuote \o n \o DQuote

\* a name written between two double quotes
IsQuoted(t) == Len(t) >= 2 /\ <<t[1]>> = DQuote /\ <<t[Len(t)]>> = DQuote

Unquote(t) == SubSeq(t, 2, Len(t) - 1)

\* a name with no double quote in it, which [^"]+ takes whole
IsBare(t) == t # <<>> /\ \A k \in DOMAIN t : <<t[k]>> # DQuote

IsQuotedBare(t) == IsQuoted(t) /\ IsBare(Unquote(t))

\* Python's str < str: lexicographic by code point
RECURSIVE StrLess(_, _)
StrLess(s, t) ==
    IF t = <<>> THEN FALSE
    ELSE IF s = <<>> THEN TRUE
    ELSE IF Head(s) # Head(t) THEN Head(s) < Head(t)
    ELSE StrLess(Tail(s), Tail(t))

\* str(node).replace("'", "''")
RECURSIVE SqlId(_)
SqlId(s) ==
    IF s = <<>> THEN <<>>
    ELSE (IF <<Head(s)>> = Apostrophe THEN Apostrophe \o Apostrophe ELSE <<Head(s)>>)
         \o SqlId(Tail(s))

\* the pair left in the order given
UnsortedPair(a, b) == <<a, b>>

\* tuple(sorted([source_id, target_id]))
SortedPair(a, b) == IF StrLess(b, a) THEN <<b, a>> ELSE <<a, b>>

\* ---------------------------------------------------------------- sequences

Range(s) == {s[i] : i \in DOMAIN s}

Contains(s, x) == \E i \in DOMAIN s : s[i] = x

\* q is a substring of s
HasSubstring(s, q) ==
    \E at \in 0..(Len(s) - Len(q)) : SubSeq(s, at + 1, at + Len(q)) = q

RECURSIVE SeqSum(_)
SeqSum(s) == IF s = <<>> THEN 0 ELSE Head(s) + SeqSum(Tail(s))

RECURSIVE Flatten(_)
Flatten(ss) == IF ss = <<>> THEN <<>> ELSE Head(ss) \o Flatten(Tail(ss))

Repeat(x, n) == [i \in 1..n |-> x]

\* ---------------------------------------------------------------- NetworkX graphs
\* G.nodes : Seq(name), the node dict in insertion order
\* G.succ[n] : Seq([nbr, keys]), the adjacency dict of n in insertion order,
\*             keys = the number of edges to nbr (1 unless G is a multigraph)
\* G.pred[n] : the same for incoming edges (a directed graph only)

EmptyGraph(directed, multi) ==
    [directed |-> directed, multi |-> multi, nodes |-> <<>>,
     succ |-> <<>>, pred |-> <<>>]

NodeIndex(G, n) == CHOOSE i \in DOMAIN G.nodes : G.nodes[i] = n

HasNode(G, n) == Contains(G.nodes, n)

add_node(G, n) ==
    IF HasNode(G, n) THEN G
    ELSE [G EXCEPT !.nodes = Append(@, n),
                   !.succ = Append(@, <<>>),
                   !.pred = Append(@, <<>>)]

\* one adjacency dict after adj[nbr] gains an edge key
AdjPut(adj, nbr, multi) ==
    IF \E i \in DOMAIN adj : adj[i].nbr = nbr
    THEN [i \in DOMAIN adj |->
            IF adj[i].nbr = nbr /\ multi
            THEN [adj[i] EXCEPT !.keys = @ + 1] ELSE adj[i]]
    ELSE Append(adj, [nbr |-> nbr, keys |-> 1])

add_edge(G0, u, v) ==
    LET G == add_node(add_node(G0, u), v)
        iu == NodeIndex(G, u)
        iv == NodeIndex(G, v)
    IN  IF G.directed
        THEN [G EXCEPT !.succ[iu] = AdjPut(@, v, G.multi),
                       !.pred[iv] = AdjPut(@, u, G.multi)]
        ELSE IF u = v
        THEN [G EXCEPT !.succ[iu] = AdjPut(@, v, G.multi)]
        ELSE [G EXCEPT !.succ[iu] = AdjPut(@, v, G.multi),
                       !.succ[iv] = AdjPut(@, u, G.multi)]

RECURSIVE AddNodes(_, _)
AddNodes(G, ns) ==
    IF ns = <<>> THEN G ELSE AddNodes(add_node(G, Head(ns)), Tail(ns))

RECURSIVE AddEdges(_, _)
AddEdges(G, es) ==
    IF es = <<>> THEN G
    ELSE AddEdges(add_edge(G, Head(es)[1], Head(es)[2]), Tail(es))

\* len(G)
NumNodes(G) == Len(G.nodes)

Succ(G, n) == G.succ[NodeIndex(G, n)]
Pred(G, n) == G.pred[NodeIndex(G, n)]

\* G.neighbors(n), in adjacency order
neighbors(G, n) == [i \in DOMAIN Succ(G, n) |-> Succ(G, n)[i].nbr]

KeysTo(adj, nbr) ==
    IF \E i \in DOMAIN adj : adj[i].nbr = nbr
    THEN adj[CHOOSE i \in DOMAIN adj : adj[i].nbr = nbr].keys
    ELSE 0

AdjKeys(adj) == SeqSum([i \in DOMAIN adj |-> adj[i].keys])

\* G.degree(n): a self-loop counts twice
degree(G, n) ==
    IF G.directed
    THEN AdjKeys(Succ(G, n)) + AdjKeys(Pred(G, n))
    ELSE AdjKeys(Succ(G, n)) + KeysTo(Succ(G, n), n)

\* the edges G.edges() reports from node number i: every neighbour of a directed
\* graph, the neighbours not yet passed as a source (seen) of an undirected one,
\* each once per edge key
EdgesFrom(G, i) ==
    LET adj == G.succ[i]
        seen == {G.nodes[j] : j \in 1..(i - 1)}
    IN  Flatten([k \in DOMAIN adj |->
            IF ~G.directed /\ adj[k].nbr \in seen THEN <<>>
            ELSE Repeat(<<G.nodes[i], adj[k].nbr>>, adj[k].keys)])

\* list(G.edges())
edges(G) == Flatten([i \in DOMAIN G.nodes |-> EdgesFrom(G, i)])

\* the adjacency left whole
WholeAdj(adj, S) == adj

\* G.subgraph(S): the view that keeps the nodes in S and the adjacency among them
SelectAdj(adj, S) == SelectSeq(adj, LAMBDA e : e.nbr \in S)

RECURSIVE KeepIdx(_, _, _)
KeepIdx(G, S, i) ==
    IF i > Len(G.nodes) THEN <<>>
    ELSE (IF G.nodes[i] \in S THEN <<i>> ELSE <<>>) \o KeepIdx(G, S, i + 1)

subgraph(G, S) ==
    LET keep == KeepIdx(G, S, 1)
    IN  [directed |-> G.directed, multi |-> G.multi,
         nodes |-> [k \in DOMAIN keep |-> G.nodes[keep[k]]],
         succ |-> [k \in DOMAIN keep |-> SelectAdj(G.succ[keep[k]], S)],
         pred |-> [k \in DOMAIN keep |-> SelectAdj(G.pred[keep[k]], S)]]

\* ---------------------------------------------------------------- inputs

\* the largest number of edge statements of an input file
MaxEdgeStmts == 3
\* batch sizes 1..MaxBatch are tried beside the program's own
MaxBatch == 2
\* batch_size = 1000
DefaultBatchSize == 1000
\* find_important_nodes(G, method="degree", top_n=50)
TopN == 50

EdgeNames == {NameA, NameO}

EdgeLists == UNION {[1..k -> EdgeNames \X EdgeNames] : k \in 0..MaxEdgeStmts}

NodeLists ==
    {<<>>, <<NameA>>, <<NameK>>, <<NameO, NameA>>, <<NameA, NameO, NameK>>}

BatchSizes == (1..MaxBatch) \cup {DefaultBatchSize}

\* a DOT file: its graph type, whether it is strict, its node statements and its
\* edge statements, in file order
DotFile(type, strict, ns, es) ==
    [type |-> type, strict |-> strict, nodes |-> ns, edges |-> es]

NoDotFile == DotFile("none", FALSE, <<>>, <<>>)

\* ---------------------------------------------------------------- graph_to_dot.py

\* an edge kept when either of its nodes is in the node set
RECURSIVE AddHalfKnownEdges(_, _, _)
AddHalfKnownEdges(acc, node_set, es) ==
    IF es = <<>> THEN acc
    ELSE LET node1 == Head(es)[1]
             node2 == Head(es)[2]
         IN  IF node1 \in node_set \/ node2 \in node_set
             THEN AddHalfKnownEdges(
                    [acc EXCEPT !.G = add_edge(@, node1, node2),
                                !.included_edges = @ + 1],
                    node_set, Tail(es))
             ELSE AddHalfKnownEdges([acc EXCEPT !.excluded_edges = @ + 1],
                                    node_set, Tail(es))

\* build_graph: the graph and the three counters it prints
RECURSIVE AddKnownEdges(_, _, _)
AddKnownEdges(acc, node_set, es) ==
    IF es = <<>> THEN acc
    ELSE LET node1 == Head(es)[1]
             node2 == Head(es)[2]
         IN  IF node1 \in node_set /\ node2 \in node_set
             THEN AddKnownEdges(
                    [acc EXCEPT !.G = add_edge(@, node1, node2),
                                !.included_edges = @ + 1],
                    node_set, Tail(es))
             ELSE AddKnownEdges([acc EXCEPT !.excluded_edges = @ + 1],
                                node_set, Tail(es))

build_graph(nodes, es) ==
    AddKnownEdges(
        [G |-> AddNodes(EmptyGraph(FALSE, FALSE), nodes),
         total_edges |-> Len(es), included_edges |-> 0, excluded_edges |-> 0],
        Range(nodes), es)

\* save_graph_as_dot: a node name that holds ':' is relabelled to its quoted form
DotName(n) == IF Contains(n, Colon[1]) THEN Quote(n) ELSE n

\* the fallback writer quotes a name that holds one of the characters of ':#\" '
SafeName(n) ==
    IF \E k \in DOMAIN n : n[k] \in {58, 35, 92, 34, 32} THEN Quote(n) ELSE n

\* write_dot leaves a DOT identifier and a quoted string as they are and quotes
\* every other name
IsDotId(n) ==
    /\ n # <<>>
    /\ \A k \in DOMAIN n : n[k] \in (65..90) \cup (97..122) \cup {95} \cup (48..57)
    /\ n[1] \notin 48..57

PydotName(n) == IF IsDotId(n) \/ IsQuoted(n) THEN n ELSE Quote(n)

\* s.strip('"'), as the DOT readers apply it to a name
RECURSIVE StripLeft(_)
StripLeft(s) ==
    IF s # <<>> /\ <<Head(s)>> = DQuote THEN StripLeft(Tail(s)) ELSE s

RECURSIVE StripRight(_)
StripRight(s) ==
    IF s # <<>> /\ <<s[Len(s)]>> = DQuote
    THEN StripRight(SubSeq(s, 1, Len(s) - 1)) ELSE s

StripQuotes(s) == StripRight(StripLeft(s))

NumSelfLoops(g) == Len(SelectSeq(edges(g), LAMBDA e : e[1] = e[2]))

\* write_dot writes a strict graph when there is no self-loop; the fallback
\* writer (no pydot) writes a plain "graph G {"
save_graph_as_dot(g, with_pydot) ==
    LET name(n) == IF with_pydot THEN PydotName(DotName(n)) ELSE SafeName(DotName(n))
    IN  DotFile("graph", with_pydot /\ NumSelfLoops(g) = 0,
                [k \in DOMAIN g.nodes |-> name(g.nodes[k])],
                [k \in DOMAIN edges(g) |->
                    <<name(edges(g)[k][1]), name(edges(g)[k][2])>>])

\* ---------------------------------------------------------------- load_dot_file

\* from_pydot: both names of an edge statement with their quotes stripped
PydotEdge(e) == <<StripQuotes(e[1]), StripQuotes(e[2])>>

\* the manual parser on the line  u -- v;  edge_pattern takes u up to the
\* operator, so a bare u keeps the space that follows it, and takes v up to the
\* next quote, its trailing ';' dropped; where v opens with two quotes the group
\* is the space before it. A line whose u opens with two quotes does not match
\* and is split on '--', both parts stripped of spaces and quotes.
ManualEdge(e) ==
    LET u == e[1]
        v == e[2]
    IN  IF IsBare(u) \/ IsQuotedBare(u)
        THEN <<IF IsBare(u) THEN u \o Space ELSE Unquote(u),
               IF IsBare(v) THEN v
               ELSE IF IsQuotedBare(v) THEN Unquote(v)
               ELSE Space>>
        ELSE <<StripQuotes(u), StripQuotes(v)>>

\* the edges a reader takes from the edge statements of a file, in file order
ReadEdges(f, with_pydot) ==
    [k \in DOMAIN f.edges |->
        IF with_pydot THEN PydotEdge(f.edges[k]) ELSE ManualEdge(f.edges[k])]

\* read_dot gives a MultiGraph or MultiDiGraph (a Graph or DiGraph for a strict
\* file) of the node and edge statements; the manual fallback gives a Graph
\* of the edge statements alone
load_dot_file(f, with_pydot) ==
    LET ns == [k \in DOMAIN f.nodes |-> StripQuotes(f.nodes[k])]
        es == ReadEdges(f, with_pydot)
    IN  IF with_pydot
        THEN AddEdges(AddNodes(EmptyGraph(f.type = "digraph", ~f.strict), ns), es)
        ELSE AddEdges(EmptyGraph(FALSE, FALSE), es)

\* ---------------------------------------------------------------- find_important_nodes

\* sorted(importance.items(), key=lambda x: x[1], reverse=True): a stable sort,
\* so items of equal importance keep their order
\* an item put before the items of equal importance
RECURSIVE InsertBeforeTies(_, _)
InsertBeforeTies(sorted, item) ==
    IF sorted = <<>> THEN <<item>>
    ELSE IF Head(sorted)[2] > item[2]
         THEN <<Head(sorted)>> \o InsertBeforeTies(Tail(sorted), item)
         ELSE <<item>> \o sorted

RECURSIVE InsertByScore(_, _)
InsertByScore(sorted, item) ==
    IF sorted = <<>> THEN <<item>>
    ELSE IF Head(sorted)[2] >= item[2]
         THEN <<Head(sorted)>> \o InsertByScore(Tail(sorted), item)
         ELSE <<item>> \o sorted

RECURSIVE SortByScore(_)
SortByScore(items) ==
    IF items = <<>> THEN <<>>
    ELSE InsertByScore(SortByScore(SubSeq(items, 1, Len(items) - 1)),
                       items[Len(items)])

Take(s, n) == SubSeq(s, 1, IF Len(s) < n THEN Len(s) ELSE n)

\* method = "degree"
find_important_nodes(g, top_n) ==
    LET importance == [i \in DOMAIN g.nodes |-> <<g.nodes[i], degree(g, g.nodes[i])>>]
        sorted_nodes == Take(SortByScore(importance), top_n)
    IN  [i \in DOMAIN sorted_nodes |-> sorted_nodes[i][1]]

\* ---------------------------------------------------------------- the SQLite file

NoDb ==
    [exists |-> FALSE, tables |-> {}, nodes |-> <<>>, edges |-> <<>>,
     important_nodes |-> <<>>, graph_stats |-> <<>>]

\* executemany("INSERT INTO t VALUES ..."): rows go in in order; a row whose
\* primary key is taken raises IntegrityError and the rows before it stay
RECURSIVE InsertRows(_, _)
InsertRows(tbl, rows) ==
    IF rows = <<>> THEN [tbl |-> tbl, ok |-> TRUE]
    ELSE IF \E j \in DOMAIN tbl : tbl[j].id = Head(rows).id
         THEN [tbl |-> tbl, ok |-> FALSE]
         ELSE InsertRows(Append(tbl, Head(rows)), Tail(rows))

\* executemany("INSERT OR IGNORE INTO edges VALUES (?,?,?)"): a row that would
\* break PRIMARY KEY(id) or UNIQUE(source, target) is skipped
RECURSIVE InsertOrIgnore(_, _)
InsertOrIgnore(tbl, rows) ==
    IF rows = <<>> THEN tbl
    ELSE LET r == Head(rows)
         IN  IF \E j \in DOMAIN tbl :
                    \/ tbl[j].id = r.id
                    \/ tbl[j].source = r.source /\ tbl[j].target = r.target
             THEN InsertOrIgnore(tbl, Tail(rows))
             ELSE InsertOrIgnore(Append(tbl, r), Tail(rows))

\* str(n) of a natural number
RECURSIVE IntStr(_)
IntStr(n) == IF n < 10 THEN <<48 + n>> ELSE IntStr(n \div 10) \o <<48 + (n % 10)>>

\* ---------------------------------------------------------------- preprocess_graph

NodeRow(g, node) ==
    [id |-> SqlId(node), label |-> SqlId(node), degree |-> degree(g, node)]

\* the node loop from node number n + 1 to its next executemany: the rows of
\* nodes_data when it is full, or when the nodes run out
NodeBatch(g, n, size) ==
    LET hi == IF n + size < Len(g.nodes) THEN n + size ELSE Len(g.nodes)
    IN  [k \in 1..(hi - n) |-> NodeRow(g, g.nodes[n + k])]

\* the edge loop from enumerate index idx to its next executemany: an edge whose
\* sorted pair is in edge_set is skipped, any other is added to edge_set and
\* appended to edges_data with the enumerate index as its id
RECURSIVE ScanEdges(_, _, _, _, _)
ScanEdges(es, idx, seen, data, size) ==
    IF Len(data) >= size \/ idx >= Len(es)
    THEN [i |-> idx, edge_set |-> seen, edges_data |-> data]
    ELSE LET source_id == SqlId(es[idx + 1][1])
             target_id == SqlId(es[idx + 1][2])
             edge_pair == SortedPair(source_id, target_id)
         IN  IF edge_pair \in seen
             THEN ScanEdges(es, idx + 1, seen, data, size)
             ELSE ScanEdges(es, idx + 1, seen \cup {edge_pair},
                    Append(data, [id |-> idx, source |-> source_id,
                                  target |-> target_id]),
                    size)

\* edge_set emptied with every batch
EdgeBatchFreshSet(g, idx, seen, size) == ScanEdges(edges(g), idx, {}, <<>>, size)

EdgeBatch(g, idx, seen, size) == ScanEdges(edges(g), idx, seen, <<>>, size)

\* the rows of important_nodes
ImportantRows(g) ==
    LET important == find_important_nodes(g, TopN)
    IN  [k \in DOMAIN important |-> [id |-> SqlId(important[k])]]

DegreeSum(g) == SeqSum([k \in DOMAIN g.nodes |-> degree(g, g.nodes[k])])

\* the rows of graph_stats; avg_degree is the float sum / len(G), kept as the
\* pair of its numerator and denominator
StatsRows(g) ==
    << [id |-> "total_nodes", value |-> IntStr(NumNodes(g))],
       [id |-> "total_edges", value |-> IntStr(Len(edges(g)))],
       [id |-> "avg_degree", value |-> <<DegreeSum(g), NumNodes(g)>>] >>

VARIABLES
    nodes_file,   \* graph_to_dot: the node names of the nodes file
    edges_file,   \* graph_to_dot: the (node1_id, node2_id) of the edges file
    report,       \* graph_to_dot: the counters build_graph prints
    dot_file,     \* the DOT file preprocess_graph reads
    pydot,        \* whether NetworkX can use pydot in this installation
    G,            \* preprocess_graph: the loaded graph
    batch_size,   \* preprocess_graph: batch_size
    db,           \* the database file: what is committed
    conn,         \* preprocess_graph: the connection's view, commits pending
    ni,           \* preprocess_graph: nodes passed by the node loop
    i,            \* preprocess_graph: edges passed by the edge loop
    edge_set,     \* preprocess_graph: edge_set
    pc,           \* preprocess_graph: where it is
    error,        \* the exception that ended preprocess_graph
    run,          \* "first" or "second" run over the same database file
    prior,        \* the database file as the running preprocess_graph found it
    inode,        \* which file the database path names: os.remove makes way for a new one
    \* get_node_neighborhood(G, center_node, max_distance, max_nodes)
    requested,        \* center_node as the caller gave it
    center_node,
    max_distance,
    max_nodes,
    nodes_to_include,
    distance_map,
    current_distance,
    frontier,
    next_frontier,
    todo,             \* what `for node in frontier` has not reached yet
    returned,         \* the subgraph returned
    important_next,   \* visualize_graph_page: the nodes featured for navigation
    npc,              \* where get_node_neighborhood is
    \* GET /api/initial
    q_nodes,          \* important_nodes, the rows of the first SELECT
    q_response,       \* the response
    q_inode,          \* the file its connection has open
    qpc,              \* where get_initial_data is
    \* GET /api/expand/<node_id>, /api/node/<node_id>, /api/search?q=
    node_id,          \* the id in the URL of the request last served
    query,            \* q of the search last served
    plan,             \* how SQLite orders rows of equal degree in this search
    expand_response,
    node_response,
    search_response,
    opened,           \* whether the request last served called sqlite3.connect
    \* find_important_nodes(G, method, top_n)
    top_n,
    ranked,           \* the list returned
    method,           \* find_important_nodes: its method argument
    raises,           \* whether the networkx computation of the method raises
    scores,           \* the importance networkx gives the nodes, in node order
    printed,          \* what find_important_nodes has printed
    rpc,              \* where find_important_nodes is
    client_nodes,     \* the page: the ids of the vis.DataSet nodes
    client_edges,     \* the page: the ids of the vis.DataSet edges
    expandedNodes,    \* the page: the Set expandedNodes
    requests,         \* the page: the $.getJSON requests that have no answer yet
    sent,             \* the page: how many requests it has sent
    rejected,         \* the page: the ids handed to DataSet.add while present
    succeeded,        \* the page: the ids expanded with success since the last reset
    max_initial_nodes,  \* prepare_graph_data: its argument
    important_nodes,  \* prepare_graph_data: the list find_important_nodes returned
    initial_nodes,    \* prepare_graph_data: the set initial_nodes
    inext,            \* prepare_graph_data: how many important nodes the loop has passed
    nodes_hidden,     \* the single-file page: the ids of the nodes with hidden = true
    edges_hidden,     \* the single-file page: the ids of the edges with hidden = true
    expanded,         \* the single-file page: its Set expandedNodes
    ppc               \* where the single-file explorer is

ingest_vars ==
    <<nodes_file, edges_file, report, dot_file, pydot, G, batch_size, db, conn,
      ni, i, edge_set, pc, error, run, prior, inode>>

nbh_vars ==
    <<requested, center_node, max_distance, max_nodes, nodes_to_include,
      distance_map, current_distance, frontier, next_frontier, todo, returned,
      important_next, npc>>

query_vars == <<q_nodes, q_response, q_inode, qpc>>

api_vars ==
    <<node_id, query, plan, expand_response, node_response, search_response,
      opened>>

rank_vars == <<top_n, ranked, method, raises, scores, printed, rpc>>

client_vars ==
    <<client_nodes, client_edges, expandedNodes, requests, sent, rejected, succeeded>>

page_vars ==
    <<max_initial_nodes, important_nodes, initial_nodes, inext, nodes_hidden,
      edges_hidden, expanded, ppc>>

vars == <<ingest_vars, nbh_vars, query_vars, api_vars, rank_vars, client_vars, page_vars>>

NoReport == [total_edges |-> 0, included_edges |-> 0, excluded_edges |-> 0]

EmptyDot == DotFile("graph", FALSE, <<>>, <<>>)

InitLocals ==
    /\ G = EmptyGraph(FALSE, FALSE)
    /\ db = NoDb /\ conn = NoDb /\ prior = NoDb
    /\ ni = 0 /\ i = 0 /\ edge_set = {}
    /\ error = "none" /\ run = "first"
    /\ report = NoReport
    /\ inode = 0

\* a well-formed DOT file of the nodes ns and the edges es: a name that is not a
\* DOT identifier is written quoted
DotText(type, strict, ns, es) ==
    DotFile(type, strict,
            [k \in DOMAIN ns |-> PydotName(ns[k])],
            [k \in DOMAIN es |-> <<PydotName(es[k][1]), PydotName(es[k][2])>>])

\* a DOT file handed to db_graph_explorer.py --dot
InitDot ==
    \E ns \in NodeLists, es \in EdgeLists :
        /\ nodes_file = <<>> /\ edges_file = <<>>
        /\ \/ pydot = TRUE /\ dot_file = DotText("graph", FALSE, ns, es)
           \/ pydot = TRUE /\ dot_file = DotText("digraph", FALSE, ns, es)
           \/ pydot = TRUE /\ dot_file = DotText("graph", TRUE, ns, es)
           \/ pydot = FALSE /\ dot_file = DotText("graph", FALSE, ns, es)
        /\ pc = "load"

\* a nodes file and an edges file handed to graph_to_dot.py
InitBuild ==
    \E ns \in NodeLists, es \in EdgeLists :
        /\ nodes_file = ns /\ edges_file = es
        /\ pydot \in BOOLEAN
        /\ dot_file = NoDotFile
        /\ pc = "build"

\* get_node_neighborhood is not running
NbhIdle ==
    /\ requested = <<>> /\ center_node = <<>>
    /\ max_distance = 0 /\ max_nodes = 0
    /\ nodes_to_include = {} /\ distance_map = <<>>
    /\ current_distance = 0
    /\ frontier = {} /\ next_frontier = {} /\ todo = {}
    /\ returned = EmptyGraph(FALSE, FALSE)
    /\ important_next = <<>>
    /\ npc = "idle"

NoResponse == [status |-> "none", nodes |-> {}, edges |-> {}]

NoNodeInfo == [status |-> "none", node |-> <<>>, neighbors |-> 0]

NoSearch == [status |-> "none", nodes |-> <<>>]

\* no request is being served
QueryIdle ==
    /\ q_nodes = {} /\ q_response = NoResponse /\ q_inode = 0 /\ qpc = "idle"

\* no request for a node or a search is being served
ApiIdle ==
    /\ node_id = <<>> /\ query = <<>> /\ plan = "none"
    /\ expand_response = NoResponse
    /\ node_response = NoNodeInfo
    /\ search_response = NoSearch
    /\ opened = FALSE

\* find_important_nodes is not running
\* no page is open
ClientIdle ==
    /\ client_nodes = {} /\ client_edges = {} /\ expandedNodes = {}
    /\ requests = {} /\ sent = 0 /\ rejected = {} /\ succeeded = {}

\* no single-file page is being made or shown
PageIdle ==
    /\ max_initial_nodes = 0 /\ important_nodes = <<>> /\ initial_nodes = {}
    /\ inext = 0 /\ nodes_hidden = {} /\ edges_hidden = {} /\ expanded = {}
    /\ ppc = "idle"

\* find_important_nodes(G, "degree", top_n): nothing is computed by networkx
MethodIdle ==
    method = "degree" /\ raises = FALSE /\ scores = <<>> /\ printed = "none"

RankIdle == top_n = 0 /\ ranked = <<>> /\ rpc = "idle" /\ MethodIdle

Init ==
    /\ InitLocals
    /\ batch_size \in BatchSizes
    /\ (InitDot \/ InitBuild)
    /\ NbhIdle
    /\ QueryIdle
    /\ ApiIdle
    /\ ClientIdle
    /\ PageIdle
    /\ RankIdle

\* graph_to_dot.main: build_graph, then save_graph_as_dot
Build ==
    /\ pc = "build"
    /\ LET built == build_graph(nodes_file, edges_file)
       IN  /\ report' = [total_edges |-> built.total_edges,
                         included_edges |-> built.included_edges,
                         excluded_edges |-> built.excluded_edges]
           /\ dot_file' = save_graph_as_dot(built.G, pydot)
    /\ pc' = "load"
    /\ UNCHANGED <<nodes_file, edges_file, pydot, G, batch_size, db, conn, ni, i,
                   edge_set, error, run, prior>>
    /\ UNCHANGED <<inode, nbh_vars, query_vars, api_vars, rank_vars, client_vars, page_vars>>

\* G = load_dot_file(dot_file)
Load ==
    /\ pc = "load"
    /\ G' = load_dot_file(dot_file, pydot)
    /\ prior' = db
    /\ pc' = "open"
    /\ UNCHANGED <<nodes_file, edges_file, report, dot_file, pydot, batch_size, db,
                   conn, ni, i, edge_set, error, run>>
    /\ UNCHANGED <<inode, nbh_vars, query_vars, api_vars, rank_vars, client_vars, page_vars>>

\* connect and CREATE TABLE IF NOT EXISTS over the file as it is
KeptDb == [db EXCEPT !.exists = TRUE, !.tables = @ \cup {"nodes", "edges"}]

\* os.remove(db_file) when it exists, connect, CREATE TABLE nodes, edges
FreshDb == [NoDb EXCEPT !.exists = TRUE, !.tables = {"nodes", "edges"}]

Open ==
    /\ pc = "open"
    /\ db' = FreshDb
    /\ conn' = FreshDb
    /\ inode' = inode + 1
    /\ ni' = 0 /\ i' = 0 /\ edge_set' = {}
    /\ pc' = "nodes"
    /\ UNCHANGED <<nodes_file, edges_file, report, dot_file, pydot, G, batch_size,
                   error, run, prior>>
    /\ UNCHANGED <<nbh_vars, query_vars, api_vars, rank_vars, client_vars, page_vars>>

\* the node loop up to its next commit
InsertNodes ==
    /\ pc = "nodes"
    /\ LET rows == NodeBatch(G, ni, batch_size)
           res == InsertRows(conn.nodes, rows)
           after == [conn EXCEPT !.nodes = res.tbl]
       IN  IF ~res.ok
           THEN /\ pc' = "failed" /\ error' = "IntegrityError"
                /\ conn' = db /\ ni' = ni
                /\ UNCHANGED db
           ELSE /\ conn' = after
                /\ db' = after
                /\ ni' = ni + Len(rows)
                /\ pc' = IF ni + Len(rows) = Len(G.nodes) THEN "edges" ELSE "nodes"
                /\ UNCHANGED error
    /\ UNCHANGED <<nodes_file, edges_file, report, dot_file, pydot, G, batch_size,
                   i, edge_set, run, prior>>
    /\ UNCHANGED <<inode, nbh_vars, query_vars, api_vars, rank_vars, client_vars, page_vars>>

\* the edge loop up to its next commit
InsertEdges ==
    /\ pc = "edges"
    /\ LET b == EdgeBatch(G, i, edge_set, batch_size)
           after == [conn EXCEPT !.edges = InsertOrIgnore(@, b.edges_data)]
       IN  /\ conn' = after
           /\ db' = after
           /\ i' = b.i
           /\ edge_set' = b.edge_set
           /\ pc' = IF b.i = Len(edges(G)) THEN "index" ELSE "edges"
    /\ UNCHANGED <<nodes_file, edges_file, report, dot_file, pydot, G, batch_size,
                   ni, error, run, prior>>
    /\ UNCHANGED <<inode, nbh_vars, query_vars, api_vars, rank_vars, client_vars, page_vars>>

\* CREATE INDEX (three), find_important_nodes, CREATE TABLE important_nodes
\* (committed at once, no transaction being open), INSERT INTO important_nodes
\* (pending)
Important ==
    /\ pc = "index"
    /\ LET res == InsertRows(conn.important_nodes, ImportantRows(G))
       IN  /\ db' = [db EXCEPT !.tables = @ \cup {"important_nodes"}]
           /\ IF res.ok
              THEN /\ conn' = [conn EXCEPT !.tables = @ \cup {"important_nodes"},
                                          !.important_nodes = res.tbl]
                   /\ pc' = "stats"
                   /\ UNCHANGED error
              ELSE /\ conn' = db'
                   /\ pc' = "failed" /\ error' = "IntegrityError"
    /\ UNCHANGED <<nodes_file, edges_file, report, dot_file, pydot, G, batch_size,
                   ni, i, edge_set, run, prior>>
    /\ UNCHANGED <<inode, nbh_vars, query_vars, api_vars, rank_vars, client_vars, page_vars>>

\* CREATE TABLE graph_stats (pending), the stats list, INSERT INTO graph_stats,
\* commit, close; sum(...) / len(G) raises ZeroDivisionError on a graph with no
\* node, and what is pending is lost with the connection
Stats ==
    /\ pc = "stats"
    /\ IF NumNodes(G) = 0
       THEN /\ pc' = "failed" /\ error' = "ZeroDivisionError"
            /\ conn' = db
            /\ UNCHANGED db
       ELSE /\ LET after == [conn EXCEPT !.tables = @ \cup {"graph_stats"},
                                        !.graph_stats = StatsRows(G)]
               IN  conn' = after /\ db' = after
            /\ pc' = "done"
            /\ UNCHANGED error
    /\ UNCHANGED <<nodes_file, edges_file, report, dot_file, pydot, G, batch_size,
                   ni, i, edge_set, run, prior>>
    /\ UNCHANGED <<inode, nbh_vars, query_vars, api_vars, rank_vars, client_vars, page_vars>>

\* db_graph_explorer.py --dot is run again over the same database file, with
\* DOT file f
Restart(f) ==
    /\ pc \in {"done", "failed"}
    /\ run = "first"
    /\ run' = "second"
    /\ dot_file' = f
    /\ error' = "none"
    /\ pc' = "load"
    /\ UNCHANGED <<nodes_file, edges_file, report, pydot, G, batch_size, db, conn,
                   ni, i, edge_set, prior>>
    /\ UNCHANGED <<inode, nbh_vars, query_vars, api_vars, rank_vars, client_vars, page_vars>>

\* with the same DOT file, or with one that holds no statement
Rerun == \E f \in {dot_file, EmptyDot} : Restart(f)

\* with the same DOT file
RerunSame == Restart(dot_file)

Next ==
    \/ Build
    \/ Load
    \/ Open
    \/ InsertNodes
    \/ InsertEdges
    \/ Important
    \/ Stats
    \/ Rerun

Spec == Init /\ [][Next]_vars

\* ---------------------------------------------------------------- get_node_neighborhood

\* the largest number of edge statements of a graph handed to get_node_neighborhood
MaxNbhEdges == 3
\* max_distance is tried from 0 to MaxDistance
MaxDistance == 2
\* max_nodes is tried from 0 to MaxBudget, and at 10
MaxBudget == 3

NbhPairs ==
    << <<NameA, NameB>>, <<NameA, NameC>>, <<NameA, NameD>>,
       <<NameB, NameA>>, <<NameB, NameB>>, <<NameB, NameC>>, <<NameB, NameD>>,
       <<NameC, NameA>>, <<NameC, NameB>>, <<NameC, NameD>>,
       <<NameD, NameA>>, <<NameD, NameB>>, <<NameD, NameC>> >>

\* the edge statements of the checked graphs: every choice of at most MaxNbhEdges
\* of the pairs, in the order above
NbhEdgeLists ==
    UNION {{[j \in 1..k |-> NbhPairs[idx[j]]] :
              idx \in {f \in [1..k -> DOMAIN NbhPairs] :
                          \A a, b \in 1..k : a < b => f[a] < f[b]}} :
           k \in 0..MaxNbhEdges}

NbhNodeLists == {<<>>, <<NameA, NameB, NameC, NameD>>}

Budgets == (0..MaxBudget) \cup {10}

\* the neighbours taken whole, the included ones too
AllNeighbors(g, node, included) == Range(neighbors(g, node))

\* set(G.neighbors(node)) - nodes_to_include
NewNeighbors(g, node, included) == Range(neighbors(g, node)) \ included

\* an inner loop that never breaks adds every new neighbour
AdmittedAll(count, included, budget) == count

\* how many of `count` new neighbours the inner loop adds before
\* len(nodes_to_include) >= max_nodes breaks it
Admitted(count, included, budget) ==
    LET room == budget - Cardinality(included)
    IN  IF room <= 0 THEN 0 ELSE IF count < room THEN count ELSE room

\* the new nodes given the distance of the layer before theirs
MarkedLate(dm, added, d) ==
    [n \in DOMAIN dm \cup added |-> IF n \in added THEN d - 1 ELSE dm[n]]

\* distance_map[neighbor] = current_distance, for every neighbor added
Marked(dm, added, d) ==
    [n \in DOMAIN dm \cup added |-> IF n \in added THEN d ELSE dm[n]]

\* the center check and the initialisation; random.choice raises IndexError on
\* a graph with no node
NbhStart ==
    /\ npc = "call"
    /\ IF ~HasNode(G, requested) /\ G.nodes = <<>>
       THEN /\ npc' = "raised"
            /\ UNCHANGED <<center_node, nodes_to_include, distance_map, frontier>>
       ELSE /\ \E c \in Range(G.nodes) :
                /\ HasNode(G, requested) => c = requested
                /\ center_node' = c
                /\ nodes_to_include' = {c}
                /\ distance_map' = [n \in {c} |-> 0]
                /\ frontier' = {c}
            /\ npc' = "while"
    /\ current_distance' = 0
    /\ UNCHANGED <<requested, max_distance, max_nodes, next_frontier, todo, returned,
                   important_next>>
    /\ UNCHANGED <<ingest_vars, query_vars, api_vars, rank_vars, client_vars, page_vars>>

\* while current_distance < max_distance and len(nodes_to_include) < max_nodes
NbhWhile ==
    /\ npc = "while"
    /\ IF current_distance < max_distance /\ Cardinality(nodes_to_include) < max_nodes
       THEN /\ current_distance' = current_distance + 1
            /\ next_frontier' = {}
            /\ todo' = frontier
            /\ npc' = "for"
       ELSE /\ npc' = "return"
            /\ UNCHANGED <<current_distance, next_frontier, todo>>
    /\ UNCHANGED <<requested, center_node, max_distance, max_nodes, nodes_to_include,
                   distance_map, frontier, returned, important_next>>
    /\ UNCHANGED <<ingest_vars, query_vars, api_vars, rank_vars, client_vars, page_vars>>

\* one pass of `for node in frontier`, a set, so in any order: the new neighbours
\* of node, a set again, are added in any order until the budget is reached;
\* after the last pass frontier = next_frontier, and the loop ends if it is empty
NbhFor ==
    /\ npc = "for"
    /\ \E node \in todo :
        LET nbrs == NewNeighbors(G, node, nodes_to_include)
            k == Admitted(Cardinality(nbrs), nodes_to_include, max_nodes)
        IN  \E added \in {a \in SUBSET nbrs : Cardinality(a) = k} :
                /\ next_frontier' = next_frontier \cup added
                /\ nodes_to_include' = nodes_to_include \cup added
                /\ distance_map' = Marked(distance_map, added, current_distance)
                /\ todo' = todo \ {node}
                /\ IF todo' = {}
                   THEN /\ frontier' = next_frontier'
                        /\ npc' = IF frontier' = {} THEN "return" ELSE "while"
                   ELSE /\ npc' = "for"
                        /\ UNCHANGED frontier
    /\ UNCHANGED <<requested, center_node, max_distance, max_nodes, current_distance,
                   returned, important_next>>
    /\ UNCHANGED <<ingest_vars, query_vars, api_vars, rank_vars, client_vars, page_vars>>

\* subgraph = G.subgraph(nodes_to_include); return subgraph, distance_map
NbhReturn ==
    /\ npc = "return"
    /\ returned' = subgraph(G, nodes_to_include)
    /\ npc' = "done"
    /\ UNCHANGED <<requested, center_node, max_distance, max_nodes, nodes_to_include,
                   distance_map, current_distance, frontier, next_frontier, todo,
                   important_next>>
    /\ UNCHANGED <<ingest_vars, query_vars, api_vars, rank_vars, client_vars, page_vars>>

\* important_next = find_important_nodes(..., method="degree", top_n=10)
HintTopN == 10

\* next_neighbors: the neighbours, in the full graph, of the nodes of the page
\* that are not on the page
next_neighbors(full_graph, page) ==
    UNION {Range(neighbors(full_graph, node)) \ Range(page.nodes) :
              node \in Range(page.nodes)}

\* the orders in which a set may be iterated
Orders(S) == {s \in [1..Cardinality(S) -> S] : Range(s) = S}

\* full_graph.subgraph(S), its nodes iterated in the order `order`: the view
\* goes by the order of the graph or by that of the set S, as the sizes have it
ViewInOrder(full_graph, order) ==
    LET sub == subgraph(full_graph, Range(order))
    IN  [sub EXCEPT !.nodes = order,
                    !.succ = [k \in DOMAIN order |-> sub.succ[NodeIndex(sub, order[k])]],
                    !.pred = [k \in DOMAIN order |-> sub.pred[NodeIndex(sub, order[k])]]]

\* visualize_graph_page(G, G, center_node), after get_node_neighborhood has
\* returned: the navigation candidates and the ones featured
NbhHint ==
    /\ npc = "done"
    /\ \E order \in Orders(next_neighbors(G, returned)) :
          important_next' = find_important_nodes(ViewInOrder(G, order), HintTopN)
    /\ npc' = "page"
    /\ UNCHANGED <<requested, center_node, max_distance, max_nodes, nodes_to_include,
                   distance_map, current_distance, frontier, next_frontier, todo,
                   returned>>
    /\ UNCHANGED <<ingest_vars, query_vars, api_vars, rank_vars, client_vars, page_vars>>

\* get_node_neighborhood(G, "B", max_distance, max_nodes) on a graph read from a
\* DOT file; preprocess_graph is not running
InitNbh ==
    /\ \E ns \in NbhNodeLists, es \in NbhEdgeLists, type \in {"graph", "digraph"} :
        /\ dot_file = DotFile(type, FALSE, ns, es)
        /\ G = load_dot_file(DotFile(type, FALSE, ns, es), TRUE)
    /\ pydot = TRUE
    /\ nodes_file = <<>> /\ edges_file = <<>> /\ report = NoReport
    /\ batch_size = DefaultBatchSize
    /\ db = NoDb /\ conn = NoDb /\ prior = NoDb /\ inode = 0
    /\ ni = 0 /\ i = 0 /\ edge_set = {}
    /\ pc = "idle" /\ error = "none" /\ run = "first"
    /\ requested = NameB
    /\ max_distance \in 0..MaxDistance
    /\ max_nodes \in Budgets
    /\ center_node = <<>>
    /\ nodes_to_include = {} /\ distance_map = <<>>
    /\ current_distance = 0
    /\ frontier = {} /\ next_frontier = {} /\ todo = {}
    /\ returned = EmptyGraph(FALSE, FALSE)
    /\ important_next = <<>>
    /\ npc = "call"
    /\ QueryIdle
    /\ ApiIdle
    /\ ClientIdle
    /\ PageIdle
    /\ RankIdle

NextNbh ==
    \/ NbhStart
    \/ NbhWhile
    \/ NbhFor
    \/ NbhReturn
    \/ NbhHint

SpecNbh == InitNbh /\ [][NextNbh]_vars

\* ---------------------------------------------------------------- find_important_nodes(G, "degree", top_n)

\* the largest top_n tried beside the program's own
MaxTopN == 3

TopNs == (0..MaxTopN) \cup {TopN}

RankNodeLists == NodeLists \cup {<<NameO, NameK, NameA, NameB>>}

\* a loaded graph and a top_n
InitRank ==
    /\ \E ns \in RankNodeLists, es \in EdgeLists, type \in {"graph", "digraph"},
          strict \in BOOLEAN :
        /\ dot_file = DotText(type, strict, ns, es)
        /\ G = load_dot_file(DotText(type, strict, ns, es), TRUE)
    /\ pydot = TRUE
    /\ nodes_file = <<>> /\ edges_file = <<>> /\ report = NoReport
    /\ batch_size = DefaultBatchSize
    /\ db = NoDb /\ conn = NoDb /\ prior = NoDb /\ inode = 0
    /\ ni = 0 /\ i = 0 /\ edge_set = {}
    /\ pc = "idle" /\ error = "none" /\ run = "first"
    /\ NbhIdle
    /\ QueryIdle
    /\ ApiIdle
    /\ ClientIdle
    /\ PageIdle
    /\ top_n \in TopNs
    /\ ranked = <<>>
    /\ rpc = "call"
    /\ MethodIdle

\* the whole call
Rank ==
    /\ rpc = "call"
    /\ ranked' = find_important_nodes(G, top_n)
    /\ rpc' = "done"
    /\ UNCHANGED <<top_n, method, raises, scores, printed>>
    /\ UNCHANGED <<ingest_vars, nbh_vars, query_vars, api_vars, client_vars, page_vars>>

NextRank == Rank

SpecRank == InitRank /\ [][NextRank]_vars

\* ---------------------------------------------------------------- find_important_nodes(G, method, top_n)

Methods == {"degree", "betweenness", "pagerank", "closeness"}

\* the importance of a node as networkx computes it, up to order
Scores == {0, 1}

BetweennessWarning == "Error computing betweenness centrality. Using degree instead."

PageRankWarning == "Error computing PageRank. Using degree instead."

\* dict(G.degree()), as (node, degree) items in node order
DegreeItems(g) == [k \in DOMAIN g.nodes |-> <<g.nodes[k], degree(g, g.nodes[k])>>]

\* the dict networkx returns, as (node, score) items in node order
ScoreItems(g, given) == [k \in DOMAIN g.nodes |-> <<g.nodes[k], given[k]>>]

\* an except branch that prints and computes nothing in place of what failed
ImportanceUnlessRaised(g, how, raised, given) ==
    IF how = "betweenness"
    THEN [items |-> IF raised THEN <<>> ELSE ScoreItems(g, given),
          printed |-> IF raised THEN BetweennessWarning ELSE "none"]
    ELSE IF how = "pagerank"
    THEN [items |-> IF raised THEN <<>> ELSE ScoreItems(g, given),
          printed |-> IF raised THEN PageRankWarning ELSE "none"]
    ELSE [items |-> DegreeItems(g), printed |-> "none"]

\* the if/elif chain: importance, and what is printed on the way
Importance(g, how, raised, given) ==
    IF how = "degree"
    THEN [items |-> DegreeItems(g), printed |-> "none"]
    ELSE IF how = "betweenness"
    THEN IF raised
         THEN [items |-> DegreeItems(g), printed |-> BetweennessWarning]
         ELSE [items |-> ScoreItems(g, given), printed |-> "none"]
    ELSE IF how = "pagerank"
    THEN IF raised
         THEN [items |-> DegreeItems(g), printed |-> PageRankWarning]
         ELSE [items |-> ScoreItems(g, given), printed |-> "none"]
    ELSE [items |-> DegreeItems(g), printed |-> "none"]

\* sorted(importance.items(), key=lambda x: x[1], reverse=True)[:top_n]
TopOf(items, n) ==
    LET sorted_nodes == Take(SortByScore(items), n)
    IN  [k \in DOMAIN sorted_nodes |-> sorted_nodes[k][1]]

\* a loaded graph, a method, a top_n, and what networkx does when asked
InitMethod ==
    /\ \E ns \in RankNodeLists, es \in EdgeLists, type \in {"graph", "digraph"} :
        /\ dot_file = DotText(type, FALSE, ns, es)
        /\ G = load_dot_file(DotText(type, FALSE, ns, es), TRUE)
    /\ pydot = TRUE
    /\ nodes_file = <<>> /\ edges_file = <<>> /\ report = NoReport
    /\ batch_size = DefaultBatchSize
    /\ db = NoDb /\ conn = NoDb /\ prior = NoDb /\ inode = 0
    /\ ni = 0 /\ i = 0 /\ edge_set = {}
    /\ pc = "idle" /\ error = "none" /\ run = "first"
    /\ NbhIdle
    /\ QueryIdle
    /\ ApiIdle
    /\ ClientIdle
    /\ PageIdle
    /\ top_n \in TopNs
    /\ ranked = <<>>
    /\ printed = "none"
    /\ method \in Methods
    /\ raises \in (IF method \in {"betweenness", "pagerank"} THEN BOOLEAN ELSE {FALSE})
    /\ scores \in (IF method \in {"betweenness", "pagerank"} /\ ~raises
                   THEN [DOMAIN G.nodes -> Scores] ELSE {<<>>})
    /\ rpc = "call"

\* the whole call
RankBy ==
    /\ rpc = "call"
    /\ LET importance == Importance(G, method, raises, scores)
       IN  /\ ranked' = TopOf(importance.items, top_n)
           /\ printed' = importance.printed
    /\ rpc' = "done"
    /\ UNCHANGED <<top_n, method, raises, scores>>
    /\ UNCHANGED <<ingest_vars, nbh_vars, query_vars, api_vars, client_vars, page_vars>>

NextMethod == RankBy

SpecMethod == InitMethod /\ [][NextMethod]_vars

\* ---------------------------------------------------------------- GET /api/initial

\* a store that preprocess_graph has finished
Complete(d) == "graph_stats" \in d.tables

\* SELECT nodes.* FROM nodes JOIN important_nodes ON nodes.id = important_nodes.id
SelectImportant(d) ==
    {d.nodes[k] : k \in {j \in DOMAIN d.nodes :
                            \E m \in DOMAIN d.important_nodes :
                                d.important_nodes[m].id = d.nodes[j].id}}

\* every row of edges, whatever its endpoints
SelectEdgesAll(d, node_ids) == Range(d.edges)

\* SELECT DISTINCT edges.* FROM edges WHERE source IN (...) AND target IN (...)
SelectEdgesAmong(d, node_ids) ==
    {d.edges[k] : k \in {j \in DOMAIN d.edges :
                            d.edges[j].source \in node_ids /\ d.edges[j].target \in node_ids}}

ServerError == [status |-> "500", nodes |-> {}, edges |-> {}]

\* get_initial_data against one unchanging store
InitialView(d) ==
    IF ~({"nodes", "important_nodes", "edges"} \subseteq d.tables) THEN ServerError
    ELSE [status |-> "200", nodes |-> SelectImportant(d),
          edges |-> SelectEdgesAmong(d, {n.id : n \in SelectImportant(d)})]

\* the store a connection reads: the file it opened, which stays as it was once
\* os.remove has unlinked it
FileOf(n) == IF n = inode THEN db ELSE prior

\* connect and the first SELECT; the server runs once a store has been completed
QueryStart ==
    /\ qpc = "idle"
    /\ Complete(db) \/ Complete(prior)
    /\ q_inode' = inode
    /\ IF {"nodes", "important_nodes"} \subseteq db.tables
       THEN /\ q_nodes' = SelectImportant(db)
            /\ qpc' = "edges"
            /\ UNCHANGED q_response
       ELSE /\ q_response' = ServerError
            /\ qpc' = "done"
            /\ UNCHANGED q_nodes
    /\ UNCHANGED <<ingest_vars, nbh_vars, api_vars, rank_vars, client_vars, page_vars>>

\* the second SELECT, when there are node ids, and the response
QueryEdges ==
    /\ qpc = "edges"
    /\ LET node_ids == {n.id : n \in q_nodes}
       IN  q_response' =
             [status |-> "200", nodes |-> q_nodes,
              edges |-> IF node_ids # {}
                        THEN SelectEdgesAmong(FileOf(q_inode), node_ids) ELSE {}]
    /\ qpc' = "done"
    /\ UNCHANGED <<q_nodes, q_inode>>
    /\ UNCHANGED <<ingest_vars, nbh_vars, api_vars, rank_vars, client_vars, page_vars>>

\* ---------------------------------------------------------------- the routes of the server

\* LIMIT 10
SearchLimit == 10

\* SQLite's LIKE folds the case of ASCII letters
Fold(c) == IF c \in 97..122 THEN c - 32 ELSE c

\* s LIKE p: '%' stands for any run of characters, '_' for any one character
RECURSIVE Like(_, _)
Like(s, p) ==
    IF p = <<>> THEN s = <<>>
    ELSE IF Head(p) = 37
         THEN Like(s, Tail(p)) \/ (s # <<>> /\ Like(Tail(s), p))
         ELSE /\ s # <<>>
              /\ Head(p) = 95 \/ Fold(Head(p)) = Fold(Head(s))
              /\ Like(Tail(s), Tail(p))

\* f'%{query}%'
LikeParam(q) == <<37>> \o q \o <<37>>

\* ORDER BY degree DESC says nothing of rows of equal degree: they come by
\* ascending rowid when the table is scanned and sorted, by descending rowid
\* when idx_node_degree is walked backwards
Plans == {"table", "index"}

Before(how, a, da, b, db_) ==
    \/ da > db_
    \/ da = db_ /\ (IF how = "table" THEN a < b ELSE a > b)

\* the first n of the positions rows of tbl, in the order of the plan
RECURSIVE OrderRows(_, _, _, _)
OrderRows(tbl, rows, how, n) ==
    IF rows = {} \/ n = 0 THEN <<>>
    ELSE LET first == CHOOSE a \in rows :
                          \A b \in rows \ {a} :
                              Before(how, a, tbl[a].degree, b, tbl[b].degree)
         IN  <<first>> \o OrderRows(tbl, rows \ {first}, how, n - 1)

\* SELECT DISTINCT * FROM nodes WHERE label LIKE ? ORDER BY degree DESC LIMIT 10
SelectLike(d, q, how) ==
    LET hits == {k \in DOMAIN d.nodes : Like(d.nodes[k].label, LikeParam(q))}
        order == OrderRows(d.nodes, hits, how, SearchLimit)
    IN  [k \in DOMAIN order |-> d.nodes[order[k]]]

\* search_nodes: the response, and whether it opened the database
SearchView(d, q, how) ==
    IF q = <<>> \/ Len(q) < 2
    THEN [response |-> [status |-> "200", nodes |-> <<>>], opened |-> FALSE]
    ELSE [response |-> [status |-> "200", nodes |-> SelectLike(d, q, how)],
          opened |-> TRUE]

\* SELECT DISTINCT nodes.* FROM nodes JOIN edges ON nodes.id = edges.target OR
\* nodes.id = edges.source WHERE edges.source = ? OR edges.target = ?
SelectJoined(d, id) ==
    {d.nodes[k] : k \in {j \in DOMAIN d.nodes :
        \E e \in DOMAIN d.edges :
            /\ d.nodes[j].id = d.edges[e].target \/ d.nodes[j].id = d.edges[e].source
            /\ d.edges[e].source = id \/ d.edges[e].target = id}}

\* SELECT DISTINCT * FROM edges WHERE source = ? OR target = ?
SelectTouching(d, id) ==
    {d.edges[e] : e \in {j \in DOMAIN d.edges :
        d.edges[j].source = id \/ d.edges[j].target = id}}

\* expand_node
ExpandView(d, id) ==
    [status |-> "200", nodes |-> SelectJoined(d, id), edges |-> SelectTouching(d, id)]

\* SELECT * FROM nodes WHERE id = ?, fetchone() or {}
SelectNode(d, id) == SelectSeq(d.nodes, LAMBDA r : r.id = id)

\* the targets of the rows that have id as source, counted
CountTargets(d, id) ==
    Cardinality({r.target : r \in {e \in SelectTouching(d, id) : e.source = id}})

\* SELECT COUNT(DISTINCT CASE WHEN source = ? THEN target ELSE source END)
\* FROM edges WHERE source = ? OR target = ?
CountNeighbors(d, id) ==
    Cardinality({IF r.source = id THEN r.target ELSE r.source : r \in SelectTouching(d, id)})

\* fetchone() taken to be a row: an id with no row is a TypeError
NodeViewOfRow(d, id) ==
    IF SelectNode(d, id) = <<>>
    THEN [status |-> "500", node |-> <<>>, neighbors |-> 0]
    ELSE [status |-> "200", node |-> SelectNode(d, id),
          neighbors |-> CountNeighbors(d, id)]

\* get_node_info
NodeView(d, id) ==
    [status |-> "200", node |-> SelectNode(d, id), neighbors |-> CountNeighbors(d, id)]

\* what a request that wrote graph_stats anew would leave of the database
AfterRewrite(d) == [d EXCEPT !.graph_stats = <<>>]

\* what a request that only SELECTs and closes leaves of the database
AfterSelects(d) == d

\* preprocess_graph of a DOT file, run twice over, while the server answers a request
InitConc ==
    /\ InitLocals
    /\ batch_size \in BatchSizes
    /\ InitDot
    /\ NbhIdle
    /\ QueryIdle
    /\ ApiIdle
    /\ ClientIdle
    /\ PageIdle
    /\ RankIdle

NextConc ==
    \/ Load
    \/ Open
    \/ InsertNodes
    \/ InsertEdges
    \/ Important
    \/ Stats
    \/ RerunSame
    \/ QueryStart
    \/ QueryEdges

SpecConc == InitConc /\ [][NextConc]_vars

\* ---------------------------------------------------------------- the server over a finished store

\* the largest number of edge statements of the DOT file behind the server
MaxQueryEdges == 2

QueryEdgeLists == UNION {[1..k -> EdgeNames \X EdgeNames] : k \in 0..MaxQueryEdges}

\* the largest star that is ingested before the server starts
MaxStar == 4

\* "N00", "N01", ...
StarNames(n) ==
    [k \in 1..n |-> <<78, 48 + ((k - 1) \div 10), 48 + ((k - 1) % 10)>>]

\* a DOT file of a star of n nodes: every node stated, then the first joined to
\* each of the others
StarDot(n) ==
    DotText("graph", FALSE, StarNames(n),
            [k \in 1..(n - 1) |-> <<StarNames(n)[1], StarNames(n)[k + 1]>>])

\* the database preprocess_graph makes of StarDot(n)
StarStore(n) ==
    [exists |-> TRUE,
     tables |-> {"nodes", "edges", "important_nodes", "graph_stats"},
     nodes |-> [k \in 1..n |->
                  [id |-> StarNames(n)[k], label |-> StarNames(n)[k],
                   degree |-> IF k = 1 THEN n - 1 ELSE 1]],
     edges |-> [k \in 1..(n - 1) |->
                  [id |-> k - 1, source |-> StarNames(n)[1],
                   target |-> StarNames(n)[k + 1]]],
     important_nodes |-> [k \in 1..(IF n < TopN THEN n ELSE TopN) |->
                            [id |-> StarNames(n)[k]]],
     graph_stats |-> << [id |-> "total_nodes", value |-> IntStr(n)],
                        [id |-> "total_edges", value |-> IntStr(n - 1)],
                        [id |-> "avg_degree", value |-> <<2 * (n - 1), n>>] >>]

\* a database left by an earlier run on a star of one node more than
\* important_nodes holds
BigStore == StarStore(TopN + 1)

\* the ids asked for: of nodes the small files name, as the nodes table holds
\* them and as the DOT file spells them, of a node in no file, and of the star
RequestIds == {SqlId(NameA), SqlId(NameO), NameO, NameB, StarNames(1)[1]}

\* the searches asked for: "", "A", "o'", "xy", "N_", "N0"
Queries == {<<>>, NameA, <<111, 39>>, <<120, 121>>, <<78, 95>>, <<78, 48>>}

\* db_graph_explorer.py --dot file: preprocess_graph, then app.run
InitIngested ==
    /\ InitLocals
    /\ \/ \E ns \in NodeLists, es \in QueryEdgeLists :
            \/ pydot = TRUE /\ dot_file = DotText("graph", FALSE, ns, es)
            \/ pydot = TRUE /\ dot_file = DotText("digraph", FALSE, ns, es)
            \/ pydot = TRUE /\ dot_file = DotText("graph", TRUE, ns, es)
            \/ pydot = FALSE /\ dot_file = DotText("graph", FALSE, ns, es)
       \/ \E n \in 2..MaxStar : pydot = TRUE /\ dot_file = StarDot(n)
    /\ pc = "load"

\* db_graph_explorer.py with no --dot: app.run over the database an earlier run
\* left
InitExisting ==
    /\ G = EmptyGraph(FALSE, FALSE)
    /\ db = BigStore /\ conn = NoDb /\ prior = NoDb
    /\ ni = 0 /\ i = 0 /\ edge_set = {}
    /\ error = "none" /\ run = "first"
    /\ report = NoReport
    /\ inode = 0
    /\ pydot = TRUE /\ dot_file = NoDotFile
    /\ pc = "idle"

InitQuery ==
    /\ batch_size = DefaultBatchSize
    /\ nodes_file = <<>> /\ edges_file = <<>>
    /\ (InitIngested \/ InitExisting)
    /\ NbhIdle
    /\ QueryIdle
    /\ ApiIdle
    /\ ClientIdle
    /\ PageIdle
    /\ RankIdle

\* app.run comes after preprocess_graph, or with no --dot over a finished database
Serving == pc \in {"idle", "done"} /\ Complete(db)

\* GET /api/expand/<node_id>
Expand ==
    /\ Serving
    /\ \E id \in RequestIds :
        /\ node_id' = id
        /\ expand_response' = ExpandView(db, id)
    /\ node_response' = NoNodeInfo
    /\ search_response' = NoSearch
    /\ query' = <<>> /\ plan' = "none"
    /\ opened' = TRUE
    /\ db' = AfterSelects(db)
    /\ UNCHANGED <<nodes_file, edges_file, report, dot_file, pydot, G, batch_size,
                   conn, ni, i, edge_set, pc, error, run, prior, inode>>
    /\ UNCHANGED <<nbh_vars, query_vars, rank_vars, client_vars, page_vars>>

\* GET /api/node/<node_id>
NodeInfo ==
    /\ Serving
    /\ \E id \in RequestIds :
        /\ node_id' = id
        /\ node_response' = NodeView(db, id)
    /\ expand_response' = NoResponse
    /\ search_response' = NoSearch
    /\ query' = <<>> /\ plan' = "none"
    /\ opened' = TRUE
    /\ db' = AfterSelects(db)
    /\ UNCHANGED <<nodes_file, edges_file, report, dot_file, pydot, G, batch_size,
                   conn, ni, i, edge_set, pc, error, run, prior, inode>>
    /\ UNCHANGED <<nbh_vars, query_vars, rank_vars, client_vars, page_vars>>

\* GET /api/search?q=
Search ==
    /\ Serving
    /\ \E q \in Queries, how \in Plans :
        LET view == SearchView(db, q, how)
        IN  /\ query' = q
            /\ plan' = IF view.opened THEN how ELSE "none"
            /\ search_response' = view.response
            /\ opened' = view.opened
            /\ db' = IF view.opened THEN AfterSelects(db) ELSE db
    /\ expand_response' = NoResponse
    /\ node_response' = NoNodeInfo
    /\ node_id' = <<>>
    /\ UNCHANGED <<nodes_file, edges_file, report, dot_file, pydot, G, batch_size,
                   conn, ni, i, edge_set, pc, error, run, prior, inode>>
    /\ UNCHANGED <<nbh_vars, query_vars, rank_vars, client_vars, page_vars>>

\* the response to GET /api/initial has gone out; the route can be asked again
QueryReturn ==
    /\ qpc = "done"
    /\ qpc' = "idle"
    /\ q_nodes' = {} /\ q_response' = NoResponse
    /\ UNCHANGED q_inode
    /\ UNCHANGED <<ingest_vars, nbh_vars, api_vars, rank_vars, client_vars, page_vars>>

NextQuery ==
    \/ Load
    \/ Open
    \/ InsertNodes
    \/ InsertEdges
    \/ Important
    \/ Stats
    \/ QueryStart
    \/ QueryEdges
    \/ QueryReturn
    \/ Expand
    \/ NodeInfo
    \/ Search

SpecQuery == InitQuery /\ [][NextQuery]_vars

\* ---------------------------------------------------------------- the page of db_graph_explorer.py

\* the most requests a page sends, the one of its load included
MaxRequests == 4

\* the rows of a response in the order of their table
InRowOrder(tbl, rows) == SelectSeq(tbl, LAMBDA r : r \in rows)

\* DataSet.add(items): the items go in one by one, and an item whose id is
\* present throws, which leaves the items before it in and ends the callback
DataSetAdd(present, ids) ==
    LET dups == {k \in DOMAIN ids : ids[k] \in present}
        stop == IF dups = {} THEN Len(ids) + 1
                ELSE CHOOSE k \in dups : \A j \in dups : k <= j
    IN  [data |-> present \cup {ids[k] : k \in 1..(stop - 1)},
         thrown |-> dups # {},
         id |-> IF dups = {} THEN <<>> ELSE <<ids[stop]>>]

Request(kind, id, rid) == [kind |-> kind, id |-> id, rid |-> rid]

\* the script of the page has run: the data sets are empty and GET /api/initial
\* is on its way; the server answers from a finished database
InitClient ==
    /\ G = EmptyGraph(FALSE, FALSE)
    /\ \E n \in 2..MaxStar : db = StarStore(n)
    /\ conn = NoDb /\ prior = NoDb
    /\ ni = 0 /\ i = 0 /\ edge_set = {}
    /\ error = "none" /\ run = "first"
    /\ report = NoReport
    /\ inode = 0
    /\ pydot = TRUE /\ dot_file = NoDotFile
    /\ pc = "idle"
    /\ batch_size = DefaultBatchSize
    /\ nodes_file = <<>> /\ edges_file = <<>>
    /\ NbhIdle
    /\ QueryIdle
    /\ ApiIdle
    /\ RankIdle
    /\ client_nodes = {} /\ client_edges = {} /\ expandedNodes = {}
    /\ requests = {Request("initial", <<>>, 0)}
    /\ sent = 1
    /\ rejected = {} /\ succeeded = {}
    /\ PageIdle

\* the callback of GET /api/initial, of the page load and of Reset View alike:
\* nodes.add(data.nodes), edges.add(data.edges), nothing being filtered
InitialDone ==
    \E r \in requests :
        /\ r.kind = "initial"
        /\ LET data == InitialView(db)
               ns == DataSetAdd(client_nodes,
                        [k \in DOMAIN InRowOrder(db.nodes, data.nodes) |->
                            InRowOrder(db.nodes, data.nodes)[k].id])
               es == DataSetAdd(client_edges,
                        [k \in DOMAIN InRowOrder(db.edges, data.edges) |->
                            InRowOrder(db.edges, data.edges)[k].id])
           IN  /\ client_nodes' = ns.data
               /\ IF ns.thrown
                  THEN /\ rejected' = rejected \cup {[set |-> "nodes", id |-> ns.id[1]]}
                       /\ UNCHANGED client_edges
                  ELSE /\ client_edges' = es.data
                       /\ rejected' =
                             IF es.thrown
                             THEN rejected \cup {[set |-> "edges", id |-> es.id[1]]}
                             ELSE rejected
        /\ requests' = requests \ {r}
        /\ UNCHANGED <<expandedNodes, sent, succeeded>>
        /\ UNCHANGED <<ingest_vars, nbh_vars, query_vars, api_vars, rank_vars, page_vars>>

\* a request that fails: the .fail of GET /api/initial alerts, the .fail of
\* GET /api/expand also takes the node out of expandedNodes
RequestFails ==
    \E r \in requests :
        /\ requests' = requests \ {r}
        /\ expandedNodes' =
              IF r.kind = "expand" THEN expandedNodes \ {r.id} ELSE expandedNodes
        /\ UNCHANGED <<client_nodes, client_edges, sent, rejected, succeeded>>
        /\ UNCHANGED <<ingest_vars, nbh_vars, query_vars, api_vars, rank_vars, page_vars>>

\* the click handler of Reset View
ResetClick ==
    /\ sent < MaxRequests
    /\ client_nodes' = {} /\ client_edges' = {} /\ expandedNodes' = {}
    /\ succeeded' = {}
    /\ requests' = requests \cup {Request("initial", <<>>, sent)}
    /\ sent' = sent + 1
    /\ UNCHANGED rejected
    /\ UNCHANGED <<ingest_vars, nbh_vars, query_vars, api_vars, rank_vars, page_vars>>

\* expandNode(nodeId) of a node of the page that is not in expandedNodes (for
\* one that is, it returns at once)
ExpandCall ==
    /\ sent < MaxRequests
    /\ \E nodeId \in client_nodes \ expandedNodes :
        /\ expandedNodes' = expandedNodes \cup {nodeId}
        /\ requests' = requests \cup {Request("expand", nodeId, sent)}
    /\ sent' = sent + 1
    /\ UNCHANGED <<client_nodes, client_edges, rejected, succeeded>>
    /\ UNCHANGED <<ingest_vars, nbh_vars, query_vars, api_vars, rank_vars, page_vars>>

\* the callback of GET /api/expand/<id>: the nodes and the edges of the response
\* that the data sets do not hold are added
ExpandDone ==
    \E r \in requests :
        /\ r.kind = "expand"
        /\ LET data == ExpandView(db, r.id)
               newNodes == {n.id : n \in data.nodes} \ client_nodes
               newEdges == {e.id : e \in data.edges} \ client_edges
           IN  /\ client_nodes' = client_nodes \cup newNodes
               /\ client_edges' = client_edges \cup newEdges
        /\ succeeded' = succeeded \cup {r.id}
        /\ requests' = requests \ {r}
        /\ UNCHANGED <<expandedNodes, sent, rejected>>
        /\ UNCHANGED <<ingest_vars, nbh_vars, query_vars, api_vars, rank_vars, page_vars>>

\* the onclick of a search result: the node is added unless the page has it
SearchClick ==
    /\ \E q \in Queries, how \in Plans :
        \E k \in DOMAIN SearchView(db, q, how).response.nodes :
            LET node == SearchView(db, q, how).response.nodes[k]
            IN  /\ node.id \notin client_nodes
                /\ client_nodes' = client_nodes \cup {node.id}
    /\ UNCHANGED <<client_edges, expandedNodes, requests, sent, rejected, succeeded>>
    /\ UNCHANGED <<ingest_vars, nbh_vars, query_vars, api_vars, rank_vars, page_vars>>

NextClient ==
    \/ InitialDone
    \/ RequestFails
    \/ ResetClick
    \/ ExpandCall
    \/ ExpandDone
    \/ SearchClick

SpecClient == InitClient /\ [][NextClient]_vars

\* ---------------------------------------------------------------- interactive_graph_explorer.py

\* --initial-nodes is tried from 0 to MaxInitial, and at its default
MaxInitial == 2
\* the largest number of edge statements of a graph handed to prepare_graph_data
MaxPageEdges == 3

DefaultInitialNodes == 50
\* performSearch: a shorter term is not searched
MinTerm == 2
\* performSearch: matches.slice(0, 10)
ResultsShown == 10

InitialNodes == (0..MaxInitial) \cup {DefaultInitialNodes}

PageNames == StarNames(4)

PagePairs ==
    << <<PageNames[1], PageNames[2]>>, <<PageNames[1], PageNames[2]>>,
       <<PageNames[1], PageNames[3]>>, <<PageNames[2], PageNames[2]>>,
       <<PageNames[2], PageNames[3]>>, <<PageNames[3], PageNames[4]>>,
       <<PageNames[4], PageNames[1]>> >>

\* the edge statements of the checked graphs: every choice of at most MaxPageEdges
\* of the pairs, in the order above
PageEdgeLists ==
    UNION {{[j \in 1..k |-> PagePairs[idx[j]]] :
              idx \in {f \in [1..k -> DOMAIN PagePairs] :
                          \A a, b \in 1..k : a < b => f[a] < f[b]}} :
           k \in 0..MaxPageEdges}

\* what is typed into the search box: "N0", "n0", "03", "N03", "0"
Typed == {<<78, 48>>, <<110, 48>>, <<48, 51>>, <<78, 48, 51>>, <<48>>}

\* String.prototype.toLowerCase on ASCII
toLowerCase(s) == [k \in DOMAIN s |-> IF s[k] \in 65..90 THEN s[k] + 32 ELSE s[k]]

\* node_id_map[node]: str(i) of the position of node in G.nodes(), from 0; str is
\* one-to-one on the positions, the position stands for its decimal string
node_id_map(g, node) == NodeIndex(g, node) - 1

\* nodes_list: id and label of every node of G
nodes_list(g) == [k \in DOMAIN g.nodes |-> [id |-> k - 1, label |-> g.nodes[k]]]

\* edges_list: id, from and to of every edge of G.edges()
edges_list(g) ==
    LET es == edges(g)
    IN  [j \in DOMAIN es |->
            [id |-> j - 1, from |-> node_id_map(g, es[j][1]),
             to |-> node_id_map(g, es[j][2])]]

\* graph_data["important_nodes"]
importantNodes == {node_id_map(G, important_nodes[k]) : k \in DOMAIN important_nodes}

\* the shuffled neighbours are added one after the other until initial_nodes has
\* room many members
RECURSIVE AddWhileRoom(_, _, _)
AddWhileRoom(initial, neighbors_list, room) ==
    IF neighbors_list = <<>> \/ Cardinality(initial) >= room THEN initial
    ELSE AddWhileRoom(initial \cup {Head(neighbors_list)}, Tail(neighbors_list), room)

InitPage ==
    /\ \E es \in PageEdgeLists, type \in {"graph", "digraph"} :
        /\ dot_file = DotText(type, FALSE, PageNames, es)
        /\ G = load_dot_file(DotText(type, FALSE, PageNames, es), TRUE)
    /\ pydot = TRUE
    /\ nodes_file = <<>> /\ edges_file = <<>> /\ report = NoReport
    /\ batch_size = DefaultBatchSize
    /\ db = NoDb /\ conn = NoDb /\ prior = NoDb /\ inode = 0
    /\ ni = 0 /\ i = 0 /\ edge_set = {}
    /\ pc = "idle" /\ error = "none" /\ run = "first"
    /\ NbhIdle
    /\ QueryIdle
    /\ ApiIdle
    /\ RankIdle
    /\ client_nodes = {} /\ client_edges = {} /\ expandedNodes = {}
    /\ requests = {} /\ sent = 0 /\ rejected = {} /\ succeeded = {}
    /\ max_initial_nodes \in InitialNodes
    /\ important_nodes = <<>> /\ initial_nodes = {} /\ inext = 0
    /\ nodes_hidden = {} /\ edges_hidden = {} /\ expanded = {}
    /\ ppc = "call"

\* prepare_graph_data, up to its loop
PrepareCall ==
    /\ ppc = "call"
    /\ important_nodes' = find_important_nodes(G, max_initial_nodes)
    /\ initial_nodes' = Range(find_important_nodes(G, max_initial_nodes))
    /\ inext' = 0
    /\ ppc' = "for"
    /\ UNCHANGED <<max_initial_nodes, nodes_hidden, edges_hidden, expanded>>
    /\ UNCHANGED <<ingest_vars, nbh_vars, query_vars, api_vars, rank_vars, client_vars>>

\* one pass of "for node in important_nodes"
PrepareFor ==
    /\ ppc = "for"
    /\ inext < Len(important_nodes)
    /\ LET nbrs == Range(neighbors(G, important_nodes[inext + 1]))
       IN  IF Cardinality(initial_nodes) + Cardinality(nbrs) <= max_initial_nodes * 2
           THEN initial_nodes' = initial_nodes \cup nbrs
           ELSE \E neighbors_list \in Orders(nbrs) :
                    initial_nodes' =
                        AddWhileRoom(initial_nodes, neighbors_list, max_initial_nodes * 2)
    /\ inext' = inext + 1
    /\ UNCHANGED <<max_initial_nodes, important_nodes, nodes_hidden, edges_hidden,
                   expanded, ppc>>
    /\ UNCHANGED <<ingest_vars, nbh_vars, query_vars, api_vars, rank_vars, client_vars>>

\* the rest of prepare_graph_data, and the page made of its lists
PrepareLists ==
    /\ ppc = "for"
    /\ inext = Len(important_nodes)
    /\ nodes_hidden' = {k - 1 : k \in {k \in DOMAIN G.nodes : G.nodes[k] \notin initial_nodes}}
    /\ edges_hidden' =
        LET es == edges(G)
        IN  {j - 1 : j \in {j \in DOMAIN es : \/ es[j][1] \notin initial_nodes
                                              \/ es[j][2] \notin initial_nodes}}
    /\ expanded' = {}
    /\ ppc' = "page"
    /\ UNCHANGED <<max_initial_nodes, important_nodes, initial_nodes, inext>>
    /\ UNCHANGED <<ingest_vars, nbh_vars, query_vars, api_vars, rank_vars, client_vars>>

\* expandNode: the id an unhidden edge of nodeId shows the node of
otherNodeIdSame(edge, nodeId) == nodeId

otherNodeId(edge, nodeId) == IF edge.from = nodeId THEN edge.to ELSE edge.from

\* the hidden edges of nodeId
HiddenAt(nodeId) ==
    LET edges_data == edges_list(G)
    IN  {edges_data[j] : j \in {j \in DOMAIN edges_data :
            /\ edges_data[j].from = nodeId \/ edges_data[j].to = nodeId
            /\ edges_data[j].id \in edges_hidden}}

\* expandNode(nodeId), after hidden nodes were shown
expandNode(nodeId, shown) ==
    IF nodeId \in expanded
    THEN /\ nodes_hidden' = nodes_hidden \ shown
         /\ UNCHANGED <<edges_hidden, expanded>>
    ELSE LET connected == HiddenAt(nodeId)
         IN  /\ expanded' = expanded \cup {nodeId}
             /\ edges_hidden' = edges_hidden \ {edge.id : edge \in connected}
             /\ nodes_hidden' =
                   (nodes_hidden \ shown) \ {otherNodeId(edge, nodeId) : edge \in connected}

\* a double click on a node of the canvas: a hidden node is not drawn
DoubleClick ==
    /\ ppc = "page"
    /\ \E nodeId \in {nodes_list(G)[k].id : k \in DOMAIN G.nodes} \ nodes_hidden :
        expandNode(nodeId, {})
    /\ UNCHANGED <<max_initial_nodes, important_nodes, initial_nodes, inext, ppc>>
    /\ UNCHANGED <<ingest_vars, nbh_vars, query_vars, api_vars, rank_vars, client_vars>>

\* performSearch: the nodes listed for what was typed
matches(typed) ==
    LET searchTerm == toLowerCase(typed)
        Found(node) == HasSubstring(toLowerCase(node.label), searchTerm)
    IN  IF Len(searchTerm) < MinTerm THEN <<>>
        ELSE Take(SelectSeq(nodes_list(G), Found), ResultsShown)

\* a search, and a click on one of its results
ResultClick ==
    /\ ppc = "page"
    /\ \E typed \in Typed : \E node \in Range(matches(typed)) :
        expandNode(node.id, {node.id})
    /\ UNCHANGED <<max_initial_nodes, important_nodes, initial_nodes, inext, ppc>>
    /\ UNCHANGED <<ingest_vars, nbh_vars, query_vars, api_vars, rank_vars, client_vars>>

\* the click handler of Reset View
ResetView ==
    /\ ppc = "page"
    /\ nodes_hidden' = {node.id : node \in Range(nodes_list(G))} \ importantNodes
    /\ edges_hidden' =
        {edge.id : edge \in {edge \in Range(edges_list(G)) :
                                ~(edge.from \in importantNodes /\ edge.to \in importantNodes)}}
    /\ expanded' = {}
    /\ UNCHANGED <<max_initial_nodes, important_nodes, initial_nodes, inext, ppc>>
    /\ UNCHANGED <<ingest_vars, nbh_vars, query_vars, api_vars, rank_vars, client_vars>>

NextPage ==
    \/ PrepareCall
    \/ PrepareFor
    \/ PrepareLists
    \/ DoubleClick
    \/ ResultClick
    \/ ResetView

SpecPage == InitPage /\ [][NextPage]_vars

\* ---------------------------------------------------------------- the store after preprocess_graph

NodeIds(d) == {d.nodes[k].id : k \in DOMAIN d.nodes}

\* the rows of the edges table that have id n as source or as target
IncidentRows(d, n) ==
    {j \in DOMAIN d.edges : d.edges[j].source = n \/ d.edges[j].target = n}

\* the rows of the edges table that join the ids a and b, in either orientation
RowsJoining(d, a, b) ==
    {j \in DOMAIN d.edges :
        \/ d.edges[j].source = a /\ d.edges[j].target = b
        \/ d.edges[j].source = b /\ d.edges[j].target = a}

\* the edge statements of the DOT file, as the reader in use names their endpoints
InputEdges == Range(ReadEdges(dot_file, pydot))

\* C2: after preprocess_graph completes, the degree stored with every row of
\* nodes is the number of rows of edges that have the node as source or as target.
C2_DegreeIsIncidentRowCount ==
    pc = "done" =>
        \A k \in DOMAIN db.nodes :
            db.nodes[k].degree = Cardinality(IncidentRows(db, db.nodes[k].id))

\* C3: preprocess_graph on a graph with no node, over the database file of a
\* completed run, ends with an EmptyGraph error and leaves the file as it found it.
C3_EmptyGraphKeepsPriorStore ==
    (pc \in {"done", "failed"} /\ NumNodes(G) = 0 /\ Complete(prior)) =>
        (error = "EmptyGraph" /\ db = prior)

C6_EdgesReferToNodes ==
    pc = "done" =>
        /\ \A j \in DOMAIN db.edges :
               db.edges[j].source \in NodeIds(db) /\ db.edges[j].target \in NodeIds(db)
        /\ \A e \in Range(edges_file) :
               (e[1] \notin Range(nodes_file) \/ e[2] \notin Range(nodes_file)) =>
                   RowsJoining(db, SqlId(e[1]), SqlId(e[2])) = {}

\* build_graph has excluded an edge and kept another, and the store is complete
C6_Witness ==
    /\ pc = "done"
    /\ report.excluded_edges > 0
    /\ report.included_edges > 0
    /\ db.edges # <<>>

\* C9: the ids of the rows of edges are consecutive integers, increasing in the
\* order the edges were processed.
C9_EdgeIdsDense ==
    pc = "done" =>
        \A j \in DOMAIN db.edges : db.edges[j].id = db.edges[1].id + (j - 1)

\* the tables one executemany over all the records leaves
OneBatchNodes(g) == InsertRows(<<>>, NodeBatch(g, 0, Len(g.nodes))).tbl

OneBatchEdges(g) ==
    InsertOrIgnore(<<>>, ScanEdges(edges(g), 0, {}, <<>>, Len(edges(g)) + 1).edges_data)

\* C10: whatever the batch size, preprocess_graph leaves the node rows and the
\* edge rows that a single batch of all the records leaves.
C10_BatchSizeIndependent ==
    pc = "done" =>
        /\ Range(db.nodes) = Range(OneBatchNodes(G))
        /\ Range(db.edges) = Range(OneBatchEdges(G))

\* three nodes and three edges have gone in in batches of two
C10_Witness ==
    /\ pc = "done"
    /\ batch_size = 2
    /\ Len(db.nodes) = 3
    /\ Len(db.edges) = 3

\* ---------------------------------------------------------------- the neighbourhood returned

\* the nodes at most k edges away from c
RECURSIVE Within(_, _, _)
Within(g, c, k) ==
    IF k = 0 THEN {c}
    ELSE LET near == Within(g, c, k - 1)
         IN  near \cup UNION {Range(neighbors(g, n)) : n \in near}

\* the number of edges of a shortest path from c to n
Hops(g, c, n) ==
    CHOOSE k \in 0..NumNodes(g) :
        /\ n \in Within(g, c, k)
        /\ k = 0 \/ n \notin Within(g, c, k - 1)

\* how many of the edges es join u to v (in either orientation when undirected)
EdgeCount(es, directed, u, v) ==
    Cardinality({j \in DOMAIN es :
        \/ es[j] = <<u, v>>
        \/ ~directed /\ es[j] = <<v, u>>})

\* C1: the subgraph returned has at most max_nodes nodes, for every max_nodes,
\* 0 and 1 included, and no distance in distance_map exceeds max_distance.
C1_BudgetAndDistanceBound ==
    npc = "done" =>
        /\ Len(returned.nodes) <= max_nodes
        /\ \A n \in DOMAIN distance_map : distance_map[n] <= max_distance

\* C7: the subgraph returned holds the nodes of nodes_to_include and, of the edges
\* of G, exactly those with both endpoints among them, as often as G holds them.
C7_InducedEdges ==
    npc = "done" =>
        LET S == Range(returned.nodes)
        IN  /\ S = nodes_to_include
            /\ S = DOMAIN distance_map
            /\ \A u, v \in Range(G.nodes) :
                  EdgeCount(edges(returned), G.directed, u, v) =
                      IF u \in S /\ v \in S
                      THEN EdgeCount(edges(G), G.directed, u, v) ELSE 0

\* the result keeps an edge of G, twice over, and leaves another out
C7_Witness ==
    /\ npc = "done"
    /\ \E u, v \in Range(returned.nodes) :
          u # v /\ EdgeCount(edges(returned), G.directed, u, v) = 2
    /\ \E j \in DOMAIN edges(G) : edges(G)[j][2] \notin Range(returned.nodes)

\* C8: when the nodes within max_distance edges of an existing center are no more
\* than max_nodes, the result holds exactly those nodes, each with its hop count.
C8_FullNeighbourhoodWithinBudget ==
    (/\ npc = "done"
     /\ HasNode(G, requested)
     /\ Cardinality(Within(G, requested, max_distance)) <= max_nodes) =>
        /\ center_node = requested
        /\ Range(returned.nodes) = Within(G, requested, max_distance)
        /\ DOMAIN distance_map = Within(G, requested, max_distance)
        /\ \A n \in DOMAIN distance_map : distance_map[n] = Hops(G, requested, n)

\* the path A-B-C-D, center B, distance 1, budget 10: nodes {A,B,C}, edges
\* {(A,B),(B,C)}, distances {A:1, B:0, C:1}
C8_Witness ==
    /\ npc = "done"
    /\ dot_file = DotFile("graph", FALSE, <<>>,
                          <<<<NameA, NameB>>, <<NameB, NameC>>, <<NameC, NameD>>>>)
    /\ requested = NameB /\ max_distance = 1 /\ max_nodes = 10
    /\ Range(returned.nodes) = {NameA, NameB, NameC}
    /\ Range(edges(returned)) = {<<NameA, NameB>>, <<NameB, NameC>>}
    /\ distance_map = [n \in {NameA, NameB, NameC} |-> IF n = NameB THEN 0 ELSE 1]

\* ---------------------------------------------------------------- a request during preprocess_graph

\* C4: a request served while preprocess_graph runs over the same database sees
\* the whole previous store or the whole new one, never a store in the making.
C4_NoPartialStoreSeen ==
    qpc = "done" =>
        \/ Complete(prior) /\ q_response = InitialView(prior)
        \/ Complete(db) /\ q_response = InitialView(db)

\* ---------------------------------------------------------------- the ranking returned

\* C11: find_important_nodes(G, "degree", top_n) returns min(top_n, |V|) distinct
\* nodes of G in descending order of degree, nodes of equal degree in the order
\* they were inserted in G, and no node left out has a higher degree than a node
\* returned.
C11_TopByDegreeStable ==
    rpc = "done" =>
        /\ Len(ranked) = (IF top_n < NumNodes(G) THEN top_n ELSE NumNodes(G))
        /\ Range(ranked) \subseteq Range(G.nodes)
        /\ \A a, b \in DOMAIN ranked :
               a < b =>
                   /\ ranked[a] # ranked[b]
                   /\ degree(G, ranked[a]) >= degree(G, ranked[b])
                   /\ degree(G, ranked[a]) = degree(G, ranked[b]) =>
                          NodeIndex(G, ranked[a]) < NodeIndex(G, ranked[b])
        /\ \A n \in Range(G.nodes) \ Range(ranked) :
               \A r \in Range(ranked) : degree(G, n) <= degree(G, r)

\* a ranking cut short by top_n, with a node of higher degree first and two nodes
\* of equal degree in insertion order against the order of their names
C11_Witness ==
    /\ rpc = "done"
    /\ Len(ranked) = 3 /\ NumNodes(G) > 3
    /\ degree(G, ranked[1]) > degree(G, ranked[2])
    /\ degree(G, ranked[2]) = degree(G, ranked[3])
    /\ StrLess(ranked[3], ranked[2])

\* ---------------------------------------------------------------- what the routes answer

\* the database preprocess_graph leaves of a star is the one written out as
\* StarStore
StarStoreAsIngested ==
    \A n \in 2..MaxStar : (pc = "done" /\ dot_file = StarDot(n)) => db = StarStore(n)

\* the ids of the rows of important_nodes
ImportantIds(d) == {d.important_nodes[m].id : m \in DOMAIN d.important_nodes}

\* C12: the initial view holds exactly the rows of nodes recorded in
\* important_nodes, which are the 50 of highest degree, or all when there are
\* fewer, and exactly the rows of edges with both endpoints among them; it is the
\* same for every call on the same store.
C12_InitialViewIsImportantInduced ==
    qpc = "done" =>
        /\ q_response.status = "200"
        /\ q_response.nodes = {r \in Range(db.nodes) : r.id \in ImportantIds(db)}
        /\ Cardinality(q_response.nodes) =
               (IF Len(db.nodes) < TopN THEN Len(db.nodes) ELSE TopN)
        /\ \A r \in Range(db.nodes) \ q_response.nodes :
               \A s \in q_response.nodes : r.degree <= s.degree
        /\ q_response.edges =
               {e \in Range(db.edges) :
                   e.source \in ImportantIds(db) /\ e.target \in ImportantIds(db)}
        /\ q_response = InitialView(db)

\* over a store of 51 nodes the view holds 50 of them and leaves out the edge of
\* the node left out
C12_Witness ==
    /\ qpc = "done"
    /\ Len(db.nodes) = TopN + 1
    /\ Cardinality(q_response.nodes) = TopN
    /\ Cardinality(q_response.edges) = Len(db.edges) - 1

\* the ids joined to id by a row of edges, id itself where a row joins it to itself
Neighbours(d, id) ==
    {n \in {d.edges[j].source : j \in DOMAIN d.edges}
             \cup {d.edges[j].target : j \in DOMAIN d.edges} :
        RowsJoining(d, id, n) # {}}

\* C13: expand_node(id) returns as nodes exactly the rows of the nodes that a row
\* of edges joins to id, and as edges exactly the rows of edges that have id as
\* source or as target, however many they are.
C13_ExpandIsOneHop ==
    expand_response.status # "none" =>
        /\ expand_response.status = "200"
        /\ expand_response.nodes =
               {r \in Range(db.nodes) : r.id \in Neighbours(db, node_id)}
        /\ expand_response.edges =
               {db.edges[j] : j \in IncidentRows(db, node_id)}

\* C14: for an id of a row of nodes, node detail returns that row and, as neighbor
\* count, the number of distinct ids at the other end of the rows of edges that
\* have id as source or as target.
C14_NodeDetailCountsOtherEnds ==
    (node_response.status # "none" /\ node_id \in NodeIds(db)) =>
        /\ node_response.status = "200"
        /\ Len(node_response.node) = 1
        /\ node_response.node[1] \in Range(db.nodes)
        /\ node_response.node[1].id = node_id
        /\ node_response.neighbors = Cardinality(Neighbours(db, node_id))

\* the centre of the star of 51 nodes has been asked for: 50 neighbours
C14_Witness ==
    /\ node_response.status = "200"
    /\ node_id \in NodeIds(db)
    /\ node_response.neighbors = TopN
    /\ node_response.node[1].degree = TopN

\* C15: expand and node detail of an id that no row of nodes has do not fail:
\* expand returns no node and no edge, node detail returns no node field and a
\* neighbor count of 0.
C15_MissingIdIsEmpty ==
    node_id \notin NodeIds(db) =>
        /\ expand_response.status # "none" =>
               expand_response = [status |-> "200", nodes |-> {}, edges |-> {}]
        /\ node_response.status # "none" =>
               node_response = [status |-> "200", node |-> <<>>, neighbors |-> 0]

\* node detail has been asked for "O'", the name of a node whose id is "O''"
\* and which has an edge
C15_Witness ==
    /\ node_response.status = "200"
    /\ node_id = NameO
    /\ node_id \notin NodeIds(db)
    /\ IncidentRows(db, SqlId(NameO)) # {}
    /\ node_response.node = <<>>
    /\ node_response.neighbors = 0

\* the rows of nodes whose label contains q
Matching(d, q) == {r \in Range(d.nodes) : HasSubstring(r.label, q)}

\* by degree, the higher first, and by id, the lower first, where degrees are equal
SearchOrder(a, b) ==
    \/ a.degree > b.degree
    \/ a.degree = b.degree /\ StrLess(a.id, b.id)

\* C16: a search with a query of two characters or more returns at most 10 rows of
\* nodes, each with a label that contains the query, in descending order of degree
\* and, for equal degrees, ascending order of id; no row with a matching label that
\* is left out comes before a returned row in that order.
C16_SearchTopTenByDegreeThenId ==
    (search_response.status # "none" /\ Len(query) >= 2) =>
        LET ns == search_response.nodes
        IN  /\ search_response.status = "200"
            /\ Len(ns) <= SearchLimit
            /\ \A k \in DOMAIN ns : ns[k] \in Matching(db, query)
            /\ \A j, k \in DOMAIN ns : j < k => SearchOrder(ns[j], ns[k])
            /\ \A r \in Matching(db, query) \ Range(ns) :
                   \A k \in DOMAIN ns : ~SearchOrder(r, ns[k])

\* C17: a search with a query of less than two characters returns no row and does
\* not open the database; a search with a query that no label contains returns no
\* row, and neither fails.
C17_ShortOrUnmatchedSearchIsEmpty ==
    search_response.status # "none" =>
        /\ search_response.status = "200"
        /\ Len(query) < 2 => (search_response.nodes = <<>> /\ ~opened)
        /\ (Len(query) >= 2 /\ Matching(db, query) = {}) =>
               search_response.nodes = <<>>

\* the edges of the edges file that name a node the nodes file does not list
MissingEndpoint ==
    {k \in DOMAIN edges_file :
        edges_file[k][1] \notin Range(nodes_file) \/ edges_file[k][2] \notin Range(nodes_file)}

\* C18: the counters build_graph reports partition the edges of the edges file:
\* the total is the number included plus the number excluded, the number included
\* is the number of edges the graph built (and written out) holds, and every edge
\* with an endpoint that is not in the nodes file adds exactly 1 to the number
\* excluded. build_graph keeps no count of duplicates apart from these.
C18_BuildCountersPartition ==
    (pc # "build" /\ edges_file # <<>>) =>
        /\ report.total_edges = Len(edges_file)
        /\ report.total_edges = report.included_edges + report.excluded_edges
        /\ report.excluded_edges = Cardinality(MissingEndpoint)
        /\ report.included_edges = Len(dot_file.edges)

\* the value graph_stats holds under a key
StatValue(d, key) == (CHOOSE r \in Range(d.graph_stats) : r.id = key).value

\* C19: when preprocess_graph has completed, total_nodes of graph_stats is the
\* number of rows of nodes, total_edges is the number of rows of edges, and
\* avg_degree times total_nodes is the sum of the degrees of the rows of nodes
\* (avg_degree being the quotient of the pair kept for it).
C19_StatsMatchTables ==
    pc = "done" =>
        /\ StatValue(db, "total_nodes") = IntStr(Len(db.nodes))
        /\ StatValue(db, "total_edges") = IntStr(Len(db.edges))
        /\ StatValue(db, "avg_degree")[1] * Len(db.nodes) =
               SeqSum([k \in DOMAIN db.nodes |-> db.nodes[k].degree])
                   * StatValue(db, "avg_degree")[2]

\* C20: whatever the server does once preprocess_graph is over (the initial view,
\* expand, node detail and search, in any order and with the initial view
\* interleaved with the others), the tables nodes, edges, important_nodes and
\* graph_stats stay as preprocess_graph left them.
C20_QueriesLeaveTheStore ==
    [][Serving => (db' = db /\ Serving')]_vars

\* a search has read the database between the two SELECTs of an initial view
C20_Witness ==
    /\ Serving
    /\ qpc = "edges"
    /\ search_response.status = "200" /\ opened
    /\ search_response.nodes # <<>>
    /\ db.edges # <<>>

\* C21: preprocess_graph run a second time on the same DOT file, over the database
\* file a completed first run left, completes and leaves the same database: the
\* same rows of nodes, of edges (ids included), of important_nodes and of
\* graph_stats, and nothing else.
C21_RerunGivesTheSameStore ==
    (run = "second" /\ pc \in {"done", "failed"} /\ Complete(prior)
        /\ dot_file # EmptyDot) =>
        (pc = "done" /\ error = "none" /\ db = prior)

\* a second run has completed on an input with a duplicate edge, so that the ids
\* of the rows of edges have a gap
C21_Witness ==
    /\ run = "second" /\ pc = "done" /\ Complete(prior)
    /\ dot_file # EmptyDot
    /\ Len(db.edges) = 2 /\ db.edges[2].id = 2
    /\ db = prior

\* C22: get_node_neighborhood called with a center that is not a node of G does not
\* fail: it takes a node of G in its place, whichever, and returns the
\* neighbourhood of that node, with distance 0 for it; the center asked for is
\* neither in the subgraph nor in distance_map.
C22_MissingCenterIsReplaced ==
    (npc \in {"done", "raised"} /\ ~HasNode(G, requested)) =>
        /\ npc = "done"
        /\ HasNode(G, center_node)
        /\ center_node \in Range(returned.nodes)
        /\ distance_map[center_node] = 0
        /\ requested \notin Range(returned.nodes)
        /\ requested \notin DOMAIN distance_map

\* the nodes off the page that an edge of the full graph joins to a node on it
Candidates ==
    {n \in Range(G.nodes) \ Range(returned.nodes) :
        \E m \in Range(returned.nodes) :
            n \in Range(neighbors(G, m)) \/ m \in Range(neighbors(G, n))}

\* C23: the nodes featured for navigation on a page are at most 10, each is off the
\* page and joined by an edge of the full graph to a node on it, they come in
\* descending order of their degree in the full graph, and no such node left out
\* has a higher degree in the full graph than one featured.
C23_HintByFullDegree ==
    npc = "page" =>
        /\ Len(important_next) <= HintTopN
        /\ \A k \in DOMAIN important_next : important_next[k] \in Candidates
        /\ \A j, k \in DOMAIN important_next :
               j < k => degree(G, important_next[j]) >= degree(G, important_next[k])
        /\ \A n \in Candidates \ Range(important_next) :
               \A k \in DOMAIN important_next :
                   degree(G, n) <= degree(G, important_next[k])

\* C24: when the computation of betweenness or of PageRank raises, and when the
\* method is none of degree, betweenness and pagerank, find_important_nodes
\* returns what the degree method returns for the same graph and top_n; when it
\* was betweenness or PageRank that raised, a message saying so has been printed.
C24_FallbackIsDegree ==
    (rpc = "done" /\ (raises \/ method \notin {"degree", "betweenness", "pagerank"})) =>
        /\ ranked = find_important_nodes(G, top_n)
        /\ raises => printed \in {BetweennessWarning, PageRankWarning}
        /\ (raises /\ method = "betweenness") => printed = BetweennessWarning
        /\ (raises /\ method = "pagerank") => printed = PageRankWarning

\* PageRank has raised on a graph of four nodes where the degrees decide the
\* three nodes returned
C24_Witness ==
    /\ rpc = "done" /\ method = "pagerank" /\ raises
    /\ printed = PageRankWarning
    /\ Len(ranked) = 3 /\ NumNodes(G) = 4
    /\ degree(G, ranked[1]) > degree(G, ranked[3])

\* C25: every node of distance_map has as its distance the number of edges of a
\* shortest path to it from the center (the node taken as center) in the full
\* graph, also when the budget has left the last layer incomplete.
C25_DistancesAreShortest ==
    npc = "done" =>
        \A n \in DOMAIN distance_map :
            /\ n \in Within(G, center_node, NumNodes(G))
            /\ distance_map[n] = Hops(G, center_node, n)

\* the budget has stopped the second layer short: a node two edges away is in,
\* another node within max_distance is not
C25_Witness ==
    /\ npc = "done"
    /\ Cardinality(nodes_to_include) = max_nodes
    /\ \E n \in DOMAIN distance_map : distance_map[n] = 2
    /\ Within(G, center_node, max_distance) \ nodes_to_include # {}

\* the nodes that can be reached from c
Reachable(g, c) == Within(g, c, NumNodes(g))

\* C26: the nodes returned are closed under earlier layers: with a node at
\* distance k from the center, every node of the full graph at a distance less
\* than k is returned too, so that only the last layer may be incomplete; and for
\* max_nodes >= 1 the nodes returned are exactly min(max_nodes, number of nodes
\* within max_distance of the center) in number.
C26_LayersClosedAndCountExact ==
    npc = "done" =>
        /\ \A n \in nodes_to_include :
               \A m \in Reachable(G, center_node) :
                   Hops(G, center_node, m) < distance_map[n] => m \in nodes_to_include
        /\ max_nodes >= 1 =>
               LET near == Cardinality(Within(G, center_node, max_distance))
               IN  Cardinality(nodes_to_include) =
                       IF max_nodes < near THEN max_nodes ELSE near

\* the first layer has three nodes and the budget has let in one of them
C26_Witness ==
    /\ npc = "done"
    /\ max_nodes = 2 /\ max_distance >= 1
    /\ Cardinality(nodes_to_include) = 2
    /\ Cardinality(Within(G, center_node, 1)) = 4

\* C27: whatever the order of the page load, the clicks on Reset View, the calls
\* of expandNode, the clicks on search results and the arrival of the answers,
\* the page never hands DataSet.add an id that the data set already holds.
C27_NoDuplicateIdAdded ==
    rejected = {}

\* the expand requests of a node that have no answer yet
ExpandsInFlight(id) == {r \in requests : r.kind = "expand" /\ r.id = id}

\* C28: at every moment a node id is in expandedNodes if and only if an expand
\* request for it has no answer yet or one has succeeded since the last reset;
\* so no node has two expand requests without an answer.
C28_ExpandedIffInFlightOrDone ==
    \A id \in NodeIds(db) :
        /\ id \in expandedNodes <=> (ExpandsInFlight(id) # {} \/ id \in succeeded)
        /\ Cardinality(ExpandsInFlight(id)) <= 1

\* C29: on the single-file page, once it is made and after any expandNode, click on
\* a search result or Reset View, every edge that is not hidden has both of its
\* endpoint nodes not hidden
C29_ShownEdgesHaveShownEnds ==
    ppc = "page" =>
        \A edge \in Range(edges_list(G)) :
            edge.id \notin edges_hidden =>
                edge.from \notin nodes_hidden /\ edge.to \notin nodes_hidden

\* an expansion has shown an edge to a node that prepare_graph_data had hidden, and
\* another node is still hidden
C29_Witness ==
    /\ ppc = "page" /\ expanded # {} /\ nodes_hidden # {}
    /\ \E edge \in Range(edges_list(G)) :
        /\ edge.id \notin edges_hidden
        /\ \/ G.nodes[edge.from + 1] \notin initial_nodes
           \/ G.nodes[edge.to + 1] \notin initial_nodes

\* C30: for every persisted node, the neighbor count node detail returns equals the
\* degree stored for the node at ingestion, self-loops and repeated edges included
C30_NeighborCountIsStoredDegree ==
    (node_response.status = "200" /\ node_response.node # <<>>) =>
        node_response.neighbors = node_response.node[1].degree

====
